---- MODULE Spec2Model ----
(***************************************************************************)
(* The invocation side of gRPC Python (grpc/_channel.py): the per-call     *)
(* state machine (_RPCState, _handle_event, the request-iterator pump and   *)
(* the two rendezvous variants), the channel spin thread with its          *)
(* managed-call count, and the connectivity subscription engine.           *)
(*                                                                         *)
(* The specifications of the module:                                       *)
(*   Spec          one call, from its creation by a multicallable on      *)
(*   CallbackSpec  the call with add_done_callback invoked on it          *)
(*   ResultSpec    the call with result() invoked on it                   *)
(*   ChanSpec      one channel's managed calls and its spin threads       *)
(*   ConnSpec      one channel's connectivity polling and deliveries      *)
(***************************************************************************)
EXTENDS Integers, Sequences, FiniteSets, TLC

\* ------------------------------------------------------------------ bounds
\* items the caller's request iterator can yield
MaxRequests == 2
\* response messages the server can send
MaxMessages == 2
\* next() invocations of the one consumer
MaxNext == 2
\* cancel() invocations
MaxCancels == 2
\* done-callbacks handed to add_done_callback
MaxCallbacks == 1
\* result() invocations
MaxResults == 1
\* managed calls created on the channel
MaxCalls == 2
\* operations submitted on the managed calls after their creation, and
\* cancel() invocations on them
MaxOperations == 1
\* the largest timeout a caller passes, in ticks of the clock
MaxTimeout == 2
\* the latest deadline the caller's context carries
MaxParentDeadline == 3
\* the latest reading of time.time() at an entry point
MaxNow == 1
\* with_wait_for_ready applications on one flags value
MaxSetters == 2
\* _subscribe invocations, each with a callback of its own
MaxSubscriptions == 2
\* check_connectivity_state invocations of the polling threads
MaxPolls == 4
\* callbacks drained by one receive-status
MaxDrained == 2

\* ------------------------------------------------------------- vocabulary
\* Python's None
None == "None"

send_initial_metadata == "send_initial_metadata"
send_message == "send_message"
send_close_from_client == "send_close_from_client"
receive_initial_metadata == "receive_initial_metadata"
receive_message == "receive_message"
receive_status_on_client == "receive_status_on_client"

\* The five ways a multicallable creates a call that hands out a rendezvous.
UnaryUnaryFuture == "unary_unary.future"
UnaryStream == "unary_stream"
StreamUnaryFuture == "stream_unary.future"
StreamStream == "stream_stream"
SingleThreadedUnaryStream == "single_threaded_unary_stream"

CallTypes ==
    {UnaryUnaryFuture, UnaryStream, StreamUnaryFuture, StreamStream,
     SingleThreadedUnaryStream}

\* calls whose requests come from an iterator drained by the pump
RequestStreaming == {StreamUnaryFuture, StreamStream}
\* calls whose rendezvous is handed out as an iterator of responses
ResponseStreaming == {UnaryStream, StreamStream, SingleThreadedUnaryStream}
\* calls dispatched by the channel spin thread
MultiThreaded == CallTypes \ {SingleThreadedUnaryStream}

_UNARY_UNARY_INITIAL_DUE ==
    {send_initial_metadata, send_message, send_close_from_client,
     receive_initial_metadata, receive_message, receive_status_on_client}
_UNARY_STREAM_INITIAL_DUE ==
    {send_initial_metadata, send_message, send_close_from_client,
     receive_initial_metadata, receive_status_on_client}
_STREAM_UNARY_INITIAL_DUE ==
    {send_initial_metadata, receive_initial_metadata, receive_message,
     receive_status_on_client}
_STREAM_STREAM_INITIAL_DUE ==
    {send_initial_metadata, receive_initial_metadata, receive_status_on_client}

InitialDue(t) ==
    CASE t = UnaryUnaryFuture -> _UNARY_UNARY_INITIAL_DUE
      [] t = UnaryStream -> _UNARY_STREAM_INITIAL_DUE
      [] t = SingleThreadedUnaryStream -> _UNARY_STREAM_INITIAL_DUE
      [] t = StreamUnaryFuture -> _STREAM_UNARY_INITIAL_DUE
      [] t = StreamStream -> _STREAM_STREAM_INITIAL_DUE

\* The batches each multicallable starts the call with, in the order of their
\* operations.
InitialBatches(t) ==
    CASE t = UnaryUnaryFuture ->
           << <<send_initial_metadata, send_message, send_close_from_client,
                receive_initial_metadata, receive_message,
                receive_status_on_client>> >>
      [] t = UnaryStream ->
           << <<send_initial_metadata, send_message, send_close_from_client,
                receive_status_on_client>>,
              <<receive_initial_metadata>> >>
      [] t = SingleThreadedUnaryStream ->
           << <<send_initial_metadata, send_message, send_close_from_client>>,
              <<receive_status_on_client>>,
              <<receive_initial_metadata>> >>
      [] t = StreamUnaryFuture ->
           << <<send_initial_metadata, receive_message,
                receive_status_on_client>>,
              <<receive_initial_metadata>> >>
      [] t = StreamStream ->
           << <<send_initial_metadata, receive_status_on_client>>,
              <<receive_initial_metadata>> >>

\* grpc.StatusCode values the model distinguishes
OK == "OK"
CANCELLED == "CANCELLED"
UNKNOWN == "UNKNOWN"
INTERNAL == "INTERNAL"

\* Status codes the transport reports: 0 (OK), 1 (CANCELLED) and 99, which is
\* no status code.
TransportCodes == {0, 1, 99}

CYGRPC_STATUS_CODE_TO_STATUS_CODE(n) ==
    CASE n = 0 -> OK
      [] n = 1 -> CANCELLED
      [] n = 2 -> UNKNOWN
      [] n = 13 -> INTERNAL
      [] OTHER -> None

\* The k-th response message of the server and the k-th request of the caller.
Message(k) == "m" \o ToString(k)
Request(k) == "r" \o ToString(k)
Unserializable == "unserializable"
Garbage == "garbage"

\* _common.serialize and _common.deserialize: the serializer's bytes, or None
\* when the serializer (deserializer) raises or gives None.
serialize(message) ==
    IF message = Unserializable THEN None ELSE "bytes(" \o message \o ")"

deserialize(serialized) ==
    IF \E k \in 1..(MaxMessages + 1) : serialized = serialize(Message(k))
    THEN Message(CHOOSE k \in 1..(MaxMessages + 1) : serialized = serialize(Message(k)))
    ELSE None

\* ------------------------------------------------------------------ state
VARIABLES
    method,        \* which multicallable created the call
    state,         \* the call's _RPCState
    inflight,      \* batches the transport accepted, their events not yet taken
    sent,          \* how many response messages the server has produced
    code_log,      \* the values state.code has taken, in order
    transport_cancels, \* call.cancel() invocations, by invoker
    spin,          \* the thread running _event_handler.handle_event
    pump,          \* the thread running consume_request_iterator
    reader,        \* the thread calling next()
    cancels,       \* per cancel() invocation, in order: whether the call was
                   \* terminal when it began, and what it returned
    registrar,     \* per done-callback: where add_done_callback stands
    invocations,   \* per done-callback: its invocations
    results,       \* what each result() invocation did, in order
    finalized,     \* whether __del__ has run
    call_state,    \* the channel's _ChannelCallState
    calls,         \* per managed call of the channel: its state and batches
    spinners,      \* the channel spin threads started so far
    creator,       \* the thread inside create()
    connectivity_state, \* the channel's _ChannelConnectivityState
    poller,        \* the thread running _poll_connectivity
    deliverers,    \* the threads running _deliver
    level_log,     \* the levels the poller stored in state.connectivity
    observed,      \* per subscriber callback: the levels it was called with
    subscriptions, \* how many times _subscribe was called
    entry,         \* one invocation of a multicallable's entry point
    flagged,       \* an _InitialMetadataFlags value and the setters applied to it
    handling       \* one handle_event after it has left state.condition

call_vars ==
    <<method, state, inflight, sent, code_log, transport_cancels, spin, pump,
      reader, cancels, registrar, invocations, results, finalized>>

chan_vars == <<call_state, calls, spinners, creator>>

conn_vars ==
    <<connectivity_state, poller, deliverers, level_log, observed, subscriptions>>

entry_vars == <<entry, flagged, handling>>

vars == <<call_vars, chan_vars, conn_vars, entry_vars>>

Callbacks == 1..MaxCallbacks

_RPCState(due, initial_metadata, trailing_metadata, code, details) ==
    [due |-> due,
     initial_metadata |-> initial_metadata,
     response |-> None,
     trailing_metadata |-> trailing_metadata,
     code |-> code,
     details |-> details,
     debug_error_string |-> None,
     cancelled |-> FALSE,
     callbacks |-> <<>>]

\* state.callbacks is a list of callbacks or None; None is written as the
\* sequence <<None>>, which no list of callbacks equals.
NoCallbacks == <<None>>

\* An _abort that sets state.code and nothing else.
_abort_write_code_only(st, code, details) == [st EXCEPT !.code = code]

\* _abort once its test of state.code has passed
_abort_write(st, code, details) ==
    [st EXCEPT !.code = code,
               !.details = details,
               !.initial_metadata = IF @ = None THEN "()" ELSE @,
               !.trailing_metadata = "()"]

_abort(st, code, details) ==
    IF st.code = None THEN _abort_write(st, code, details) ELSE st

\* '...'.format(unknown_cygrpc_code, details); the arguments come formatted
_unknown_code_details(unknown_cygrpc_code, details) ==
    "Server sent unknown code " \o unknown_cygrpc_code \o " and details \""
        \o details \o "\""

\* A dispatcher that drains the callbacks only when the status it handles is
\* the one that terminates the call.
DrainedWhenNotTerminal(st) == IF st.code = None THEN st.callbacks ELSE <<>>

\* callbacks.extend(state.callbacks): the callbacks a receive-status drains;
\* `st` is the state before the status sets state.code
Drained(st) == st.callbacks

\* A loop body whose receive-status sets state.code whether or not the call
\* is terminal already.
_handle_operation_status_first(operation_type, event, acc) ==
    LET st == [acc.state EXCEPT !.due = @ \ {operation_type}] IN
    CASE operation_type = receive_initial_metadata ->
           [acc EXCEPT !.state = [st EXCEPT !.initial_metadata = event.initial_metadata]]
      [] operation_type = receive_message ->
           IF event.message = None
           THEN [acc EXCEPT !.state = st]
           ELSE IF deserialize(event.message) = None
                THEN [acc EXCEPT !.state =
                        _abort(st, INTERNAL, "Exception deserializing response!")]
                ELSE [acc EXCEPT !.state =
                        [st EXCEPT !.response = deserialize(event.message)]]
      [] operation_type = receive_status_on_client ->
           LET code == CYGRPC_STATUS_CODE_TO_STATUS_CODE(event.code)
               s1 == [st EXCEPT !.trailing_metadata = event.trailing_metadata]
               s2 == IF code = None
                     THEN [s1 EXCEPT
                             !.code = UNKNOWN,
                             !.details = _unknown_code_details(code, event.details)]
                     ELSE [s1 EXCEPT
                             !.code = code,
                             !.details = event.details,
                             !.debug_error_string = event.error_string]
           IN [state |-> [s2 EXCEPT !.callbacks = NoCallbacks],
               callbacks |-> acc.callbacks \o Drained(s1),
               raised |-> FALSE]
      [] OTHER -> [acc EXCEPT !.state = st]

\* One batch operation of a completion event, applied to the state: the body
\* of _handle_event's loop. `acc` carries the state and the callbacks drained
\* so far.
_handle_operation(operation_type, event, acc) ==
    LET st == [acc.state EXCEPT !.due = @ \ {operation_type}] IN
    CASE operation_type = receive_initial_metadata ->
           [acc EXCEPT !.state = [st EXCEPT !.initial_metadata = event.initial_metadata]]
      [] operation_type = receive_message ->
           IF event.message = None
           THEN [acc EXCEPT !.state = st]
           ELSE IF deserialize(event.message) = None
                THEN [acc EXCEPT !.state =
                        _abort(st, INTERNAL, "Exception deserializing response!")]
                ELSE [acc EXCEPT !.state =
                        [st EXCEPT !.response = deserialize(event.message)]]
      [] operation_type = receive_status_on_client ->
           LET code == CYGRPC_STATUS_CODE_TO_STATUS_CODE(event.code)
               s1 == [st EXCEPT !.trailing_metadata = event.trailing_metadata]
               s2 == IF s1.code # None THEN s1
                     ELSE IF code = None
                          THEN [s1 EXCEPT
                                  !.code = UNKNOWN,
                                  !.details = _unknown_code_details(code, event.details)]
                          ELSE [s1 EXCEPT
                                  !.code = code,
                                  !.details = event.details,
                                  !.debug_error_string = event.error_string]
           IN [state |-> [s2 EXCEPT !.callbacks = NoCallbacks],
               callbacks |-> acc.callbacks \o Drained(s1),
               raised |-> FALSE]
      [] OTHER -> [acc EXCEPT !.state = st]

\* _handle_event: the operations of the event in order. state.due.remove
\* raises KeyError for a kind that is not in due; the loop stops there with
\* what it has done so far (raised = TRUE).
RECURSIVE _handle_operations(_, _, _)
_handle_operations(batch_operations, event, acc) ==
    IF batch_operations = <<>> THEN acc
    ELSE IF Head(batch_operations) \notin acc.state.due
         THEN [acc EXCEPT !.raised = TRUE]
         ELSE _handle_operations(
                  Tail(batch_operations), event,
                  _handle_operation(Head(batch_operations), event, acc))

_handle_event(event, st) ==
    _handle_operations(event.batch_operations, event,
                       [state |-> st, callbacks |-> <<>>, raised |-> FALSE])

\* ------------------------------------------------------------- the call
\* state' together with the record of the values of state.code
SetState(st) ==
    /\ state' = st
    /\ code_log' = IF st.code # state.code THEN Append(code_log, st.code) ELSE code_log

Has(batch, kind) == \E j \in 1..Len(batch) : batch[j] = kind

Remove(seq, i) == SubSeq(seq, 1, i - 1) \o SubSeq(seq, i + 1, Len(seq))

FnName(c) == "fn" \o ToString(c)

Idle == [pc |-> "idle", callbacks |-> <<>>, done |-> FALSE]

\* what the pump remembers of the call at a point of its run: that it has not
\* reached the point, or whether state.code was None there
NotYet == "not yet"
Found(st) == IF st.code = None THEN "open" ELSE "terminal"

CallInit ==
    /\ method \in CallTypes
    /\ state = _RPCState(InitialDue(method), None, None, None, None)
    /\ inflight = InitialBatches(method)
    /\ sent = 0
    /\ code_log = <<>>
    /\ transport_cancels = [cancel |-> 0, pump |-> 0, finalizer |-> 0]
    /\ spin = Idle
    /\ pump = [pc |-> IF method \in RequestStreaming THEN "iterate" ELSE "none",
               yielded |-> 0, serialized_request |-> None,
               at_raise |-> NotYet, at_abort |-> NotYet]
    /\ reader = [pc |-> "idle", after_cancel |-> FALSE, outcomes |-> <<>>]
    /\ cancels = <<>>
    /\ registrar = [c \in Callbacks |-> "new"]
    /\ invocations = [c \in Callbacks |-> <<>>]
    /\ results = <<>>
    /\ finalized = FALSE

\* channel.next_call_event() and call.next_event(): the transport completes
\* one of the batches it accepted and hands over the completion event, which
\* carries the results of every operation of the batch.
MessageChoices ==
    {None, Garbage}
        \cup (IF sent < MaxMessages THEN {serialize(Message(sent + 1))} ELSE {})

CompletionEvents ==
    UNION {
        {[index |-> i,
          batch_operations |-> inflight[i],
          initial_metadata |-> "initial metadata",
          message |-> message,
          trailing_metadata |-> "trailing metadata",
          code |-> code,
          details |-> "details",
          error_string |-> "error string"] :
            message \in (IF Has(inflight[i], receive_message)
                         THEN MessageChoices ELSE {None}),
            code \in (IF Has(inflight[i], receive_status_on_client)
                      THEN TransportCodes ELSE {0})} :
        i \in 1..Len(inflight)}

\* the transport's side of handing over `event`
Taken_event(event) ==
    /\ inflight' = Remove(inflight, event.index)
    /\ sent' = IF event.message \notin {None, Garbage} THEN sent + 1 ELSE sent

\* The channel spin thread takes the next event of the call and runs
\* _event_handler.handle_event up to the release of state.condition.
HandleEventLocked ==
    /\ method \in MultiThreaded
    /\ spin.pc = "idle"
    /\ \E event \in CompletionEvents :
        LET r == _handle_event(event, state) IN
        /\ Taken_event(event)
        /\ SetState(r.state)
        /\ spin' = IF r.raised
                   THEN [pc |-> "raised", callbacks |-> <<>>, done |-> FALSE]
                   ELSE [pc |-> "callbacks", callbacks |-> r.callbacks,
                         done |-> r.state.due = {}]
    /\ UNCHANGED <<chan_vars, conn_vars, entry_vars>>
    /\ UNCHANGED <<method, transport_cancels, pump, reader,
                   cancels, registrar, invocations, results, finalized>>

\* the invocations of the callbacks `fns`, in order, by `thread`, which holds
\* state.condition or not, added to `inv`
RECURSIVE InvokedAll(_, _, _, _)
InvokedAll(fns, thread, holds_condition, inv) ==
    IF fns = <<>> THEN inv
    ELSE InvokedAll(Tail(fns), thread, holds_condition,
            [c \in Callbacks |->
                IF FnName(c) = Head(fns)
                THEN Append(inv[c], [thread |-> thread, holds_condition |-> holds_condition])
                ELSE inv[c]])

\* _event_handler.handle_event, the part after state.condition is released:
\* the drained callbacks are invoked and the handler returns.
HandleEventCallbacks ==
    /\ spin.pc = "callbacks"
    /\ invocations' = InvokedAll(spin.callbacks, "spin", FALSE, invocations)
    /\ spin' = Idle
    /\ UNCHANGED <<chan_vars, conn_vars, entry_vars>>
    /\ UNCHANGED <<method, state, inflight, sent, code_log,
                   transport_cancels, pump, reader, cancels, registrar, results,
                   finalized>>

\* ------------------------------------------------- the request-iterator pump
\* A submitter that leaves the kind in due when the transport refuses.
LeftInDue(due, kind) == due \cup {kind}

\* due after an operation kind was added to it and the transport refused the
\* operation: state.due.add(kind), then state.due.remove(kind)
RolledBack(due, kind) == (due \cup {kind}) \ {kind}

\* A submitter that does not add the kind to due before operate().
NotAdded(due, kind) == due

\* due after an operation kind was added to it and the transport accepted the
\* operation
Added(due, kind) == due \cup {kind}

\* next(request_iterator): an item, StopIteration, or an exception, after which
\* the pump cancels the call and goes on to _abort without state.condition.
PumpIterate ==
    /\ pump.pc = "iterate"
    /\ \/ /\ pump.yielded < MaxRequests
          /\ \E request \in {Request(pump.yielded + 1), Unserializable} :
                pump' = [pump EXCEPT !.pc = "submit",
                                     !.yielded = pump.yielded + 1,
                                     !.serialized_request = serialize(request)]
          /\ UNCHANGED transport_cancels
       \/ /\ pump' = [pump EXCEPT !.pc = "close"]
          /\ UNCHANGED transport_cancels
       \/ /\ pump' = [pump EXCEPT !.pc = "abort", !.at_raise = Found(state)]
          /\ transport_cancels' = [transport_cancels EXCEPT !.pump = @ + 1]
    /\ UNCHANGED <<chan_vars, conn_vars, entry_vars>>
    /\ UNCHANGED <<method, state, inflight, sent, code_log, spin, reader,
                   cancels, registrar, invocations, results, finalized>>

\* _abort(state, UNKNOWN, ...) after the iterator raised, outside
\* state.condition: the test of state.code ...
PumpAbortTest ==
    /\ pump.pc = "abort"
    /\ pump' = [pump EXCEPT !.pc = IF state.code = None THEN "abort_write" ELSE "done",
                            !.at_abort = Found(state)]
    /\ UNCHANGED <<chan_vars, conn_vars, entry_vars>>
    /\ UNCHANGED <<method, state, inflight, sent, code_log,
                   transport_cancels, spin, reader, cancels, registrar,
                   invocations, results, finalized>>

\* ... and the assignments that follow it.
PumpAbortWrite ==
    /\ pump.pc = "abort_write"
    /\ SetState(_abort_write(state, UNKNOWN, "Exception iterating requests!"))
    /\ pump' = [pump EXCEPT !.pc = "done"]
    /\ UNCHANGED <<chan_vars, conn_vars, entry_vars>>
    /\ UNCHANGED <<method, inflight, sent, transport_cancels, spin,
                   reader, cancels, registrar, invocations, results, finalized>>

\* A pump that lists the SendMessage as due before it looks at the serialized
\* request.
_abort_serializing_after_add(st) ==
    _abort([st EXCEPT !.due = Added(@, send_message)],
           INTERNAL, "Exception serializing request!")

\* the pump's _abort when serialized_request is None
_abort_serializing(st) == _abort(st, INTERNAL, "Exception serializing request!")

\* Under state.condition: the serialized request is submitted, or the call is
\* aborted when serialization failed, or the pump ends.
PumpSubmit ==
    /\ pump.pc = "submit"
    /\ IF state.code = None /\ ~state.cancelled
       THEN IF pump.serialized_request = None
            THEN /\ transport_cancels' = [transport_cancels EXCEPT !.pump = @ + 1]
                 /\ SetState(_abort_serializing(state))
                 /\ pump' = [pump EXCEPT !.pc = "done"]
                 /\ UNCHANGED inflight
            ELSE /\ UNCHANGED transport_cancels
                 /\ \E operating \in BOOLEAN :
                      IF operating
                      THEN /\ SetState([state EXCEPT !.due = Added(@, send_message)])
                           /\ inflight' = Append(inflight, <<send_message>>)
                           /\ pump' = [pump EXCEPT !.pc = "wait"]
                      ELSE /\ SetState([state EXCEPT !.due = RolledBack(@, send_message)])
                           /\ UNCHANGED inflight
                           /\ pump' = [pump EXCEPT !.pc = "refused"]
       ELSE /\ pump' = [pump EXCEPT !.pc = "done"]
            /\ UNCHANGED <<state, code_log, inflight, transport_cancels>>
    /\ UNCHANGED <<chan_vars, conn_vars, entry_vars>>
    /\ UNCHANGED <<method, sent, spin, reader, cancels, registrar,
                   invocations, results, finalized>>

\* A pump that does not wait for the completion of its SendMessage.
PumpDoneAtOnce(st) == TRUE

\* A pump that waits for the completion of its SendMessage whatever the code.
PumpDoneWhenSent(st) == send_message \notin st.due

\* the pump's _done: what it waits for after a SendMessage was accepted
PumpDone(st) == st.code # None \/ send_message \notin st.due

PumpWait ==
    /\ pump.pc = "wait"
    /\ PumpDone(state)
    /\ pump' = [pump EXCEPT !.pc = IF state.code # None THEN "done" ELSE "iterate"]
    /\ UNCHANGED <<chan_vars, conn_vars, entry_vars>>
    /\ UNCHANGED <<method, state, inflight, sent, code_log,
                   transport_cancels, spin, reader, cancels, registrar,
                   invocations, results, finalized>>

\* After the loop: SendCloseFromClient, if the call is not terminal. The pump
\* returns either way; "refused" is its return after the transport refused
\* its operation.
PumpClose ==
    /\ pump.pc = "close"
    /\ IF state.code = None
       THEN \E operating \in BOOLEAN :
              IF operating
              THEN /\ SetState([state EXCEPT !.due = Added(@, send_close_from_client)])
                   /\ inflight' = Append(inflight, <<send_close_from_client>>)
                   /\ pump' = [pump EXCEPT !.pc = "done"]
              ELSE /\ SetState([state EXCEPT !.due = RolledBack(@, send_close_from_client)])
                   /\ UNCHANGED inflight
                   /\ pump' = [pump EXCEPT !.pc = "refused"]
       ELSE /\ pump' = [pump EXCEPT !.pc = "done"]
            /\ UNCHANGED <<state, code_log, inflight>>
    /\ UNCHANGED <<chan_vars, conn_vars, entry_vars>>
    /\ UNCHANGED <<method, sent, transport_cancels, spin, reader, cancels,
                   registrar, invocations, results, finalized>>

\* ------------------------------------------------------------ cancellation
\* A cancel() that does not test state.code.
cancel_unguarded(st) ==
    [state |-> [st EXCEPT !.cancelled = TRUE, !.code = CANCELLED,
                          !.details = "Locally cancelled by application!"],
     returned |-> TRUE, call_cancel |-> TRUE]

\* A cancel() that marks a terminal call as cancelled.
cancel_marking(st) ==
    IF st.code = None
    THEN [state |-> _abort([st EXCEPT !.cancelled = TRUE], CANCELLED,
                           "Locally cancelled by application!"),
          returned |-> TRUE, call_cancel |-> TRUE]
    ELSE [state |-> [st EXCEPT !.cancelled = TRUE],
          returned |-> FALSE, call_cancel |-> FALSE]

\* _Rendezvous.cancel under state.condition: the state after it, what it
\* returns, and whether it called call.cancel
cancel(st) ==
    IF st.code = None
    THEN [state |-> _abort([st EXCEPT !.cancelled = TRUE], CANCELLED,
                           "Locally cancelled by application!"),
          returned |-> TRUE, call_cancel |-> TRUE]
    ELSE [state |-> st, returned |-> FALSE, call_cancel |-> FALSE]

Cancel ==
    /\ ~finalized
    /\ Len(cancels) < MaxCancels
    /\ LET r == cancel(state) IN
        /\ SetState(r.state)
        /\ cancels' = Append(cancels, [terminal |-> state.code # None,
                                       returned |-> r.returned])
        /\ transport_cancels' =
              IF r.call_cancel
              THEN [transport_cancels EXCEPT !.cancel = @ + 1]
              ELSE transport_cancels
    /\ UNCHANGED <<chan_vars, conn_vars, entry_vars>>
    /\ UNCHANGED <<method, inflight, sent, spin, pump, reader, registrar,
                   invocations, results, finalized>>

\* _Rendezvous.__del__: the rendezvous is garbage, so no thread is in one of
\* its methods and no pending done-callback (a partial bound to it) holds it.
__del__(st) ==
    IF st.code = None
    THEN [st EXCEPT !.code = CANCELLED,
                    !.details = "Cancelled upon garbage collection!",
                    !.cancelled = TRUE]
    ELSE st

Finalize ==
    /\ ~finalized
    /\ reader.pc = "idle"
    /\ \A c \in Callbacks : registrar[c] # "calling"
    /\ state.callbacks \in {<<>>, NoCallbacks}
    /\ finalized' = TRUE
    /\ SetState(__del__(state))
    /\ transport_cancels' =
          IF state.code = None
          THEN [transport_cancels EXCEPT !.finalizer = @ + 1]
          ELSE transport_cancels
    /\ UNCHANGED <<chan_vars, conn_vars, entry_vars>>
    /\ UNCHANGED <<method, inflight, sent, spin, pump, reader, cancels,
                   registrar, invocations, results>>

\* ------------------------------------------------------------------ next()
StopIteration == "StopIteration"
RaiseSelf == "raise self"
ReturnNone == "return None"

\* whether a cancel() has returned True
CancelReturnedTrue == \E i \in 1..Len(cancels) : cancels[i].returned

\* the outcome of a next(): what it returned or raised, and whether it began
\* after a cancel() had returned True
Outcome(value) == [value |-> value, after_cancel |-> reader.after_cancel]

\* The first block of _next (both variants), under state.condition: a
\* ReceiveMessage is submitted while the call is not terminal; a terminal call
\* ends the iteration or raises.
NextSubmit(waiting_pc) ==
    /\ ~finalized
    /\ reader.pc = "idle"
    /\ Len(reader.outcomes) < MaxNext
    /\ IF state.code = None
       THEN /\ \E operating \in BOOLEAN :
                 IF operating
                 THEN /\ SetState([state EXCEPT !.due = Added(@, receive_message)])
                      /\ inflight' = Append(inflight, <<receive_message>>)
                 ELSE /\ SetState([state EXCEPT !.due = RolledBack(@, receive_message)])
                      /\ UNCHANGED inflight
            /\ reader' = [reader EXCEPT !.pc = waiting_pc,
                                        !.after_cancel = CancelReturnedTrue]
       ELSE /\ reader' = [reader EXCEPT
                  !.outcomes = Append(@,
                      [value |-> IF state.code = OK THEN StopIteration ELSE RaiseSelf,
                       after_cancel |-> CancelReturnedTrue])]
            /\ UNCHANGED <<state, code_log, inflight>>
    /\ UNCHANGED <<chan_vars, conn_vars, entry_vars>>
    /\ UNCHANGED <<method, sent, transport_cancels, spin, pump, cancels,
                   registrar, invocations, results, finalized>>

\* _MultiThreadedRendezvous._next up to its wait
MultiThreadedNext ==
    /\ method \in MultiThreaded \cap ResponseStreaming
    /\ NextSubmit("wait")

\* _response_ready of _MultiThreadedRendezvous._next
_response_ready(st) ==
    \/ st.response # None
    \/ (receive_message \notin st.due /\ st.code # None)

\* A _next that looks at state.code before it looks at state.response.
Taken_code_first(st) ==
    IF receive_message \notin st.due /\ st.code # None
    THEN [state |-> st, value |-> IF st.code = OK THEN StopIteration ELSE RaiseSelf]
    ELSE IF st.response # None
         THEN [state |-> [st EXCEPT !.response = None], value |-> st.response]
         ELSE [state |-> st, value |-> "continue"]

\* A _next that returns state.response and leaves it where it is.
Taken_response_kept(st) ==
    IF st.response # None
    THEN [state |-> st, value |-> st.response]
    ELSE IF receive_message \notin st.due
         THEN IF st.code = OK THEN [state |-> st, value |-> StopIteration]
              ELSE IF st.code # None THEN [state |-> st, value |-> RaiseSelf]
              ELSE [state |-> st, value |-> "continue"]
         ELSE [state |-> st, value |-> "continue"]

\* What _next does with the state once it looks at it: the response, which it
\* clears, or the end of the iteration, or the rendezvous raised. "continue"
\* is the single-threaded loop going round again.
Taken(st) ==
    IF st.response # None
    THEN [state |-> [st EXCEPT !.response = None], value |-> st.response]
    ELSE IF receive_message \notin st.due
         THEN IF st.code = OK THEN [state |-> st, value |-> StopIteration]
              ELSE IF st.code # None THEN [state |-> st, value |-> RaiseSelf]
              ELSE [state |-> st, value |-> "continue"]
         ELSE [state |-> st, value |-> "continue"]

\* _MultiThreadedRendezvous._next from its wait on: the wait has ended.
MultiThreadedNextWait ==
    /\ reader.pc = "wait"
    /\ _response_ready(state)
    /\ LET t == Taken(state) IN
        /\ SetState(t.state)
        /\ reader' = [reader EXCEPT
              !.pc = "idle",
              !.outcomes = Append(@,
                  Outcome(IF t.value = "continue" THEN ReturnNone ELSE t.value))]
    /\ UNCHANGED <<chan_vars, conn_vars, entry_vars>>
    /\ UNCHANGED <<method, inflight, sent, transport_cancels, spin, pump,
                   cancels, registrar, invocations, results, finalized>>

\* _SingleThreadedRendezvous._next up to _next_response
SingleThreadedNext ==
    /\ method = SingleThreadedUnaryStream
    /\ NextSubmit("consume")

\* _SingleThreadedRendezvous._consume_next_event: the calling thread takes the
\* call's next event, applies it and invokes the drained callbacks, all under
\* state.condition.
ConsumeNextEvent ==
    /\ reader.pc = "consume"
    /\ \E event \in CompletionEvents :
        LET r == _handle_event(event, state) IN
        /\ Taken_event(event)
        /\ SetState(r.state)
        /\ reader' = [reader EXCEPT !.pc = IF r.raised THEN "raised" ELSE "look"]
        /\ invocations' = InvokedAll(r.callbacks, "reader", TRUE, invocations)
    /\ UNCHANGED <<chan_vars, conn_vars, entry_vars>>
    /\ UNCHANGED <<method, transport_cancels, spin, pump, cancels,
                   registrar, results, finalized>>

\* _SingleThreadedRendezvous._next_response after the event: the state is
\* looked at under state.condition, and the loop goes round unless it returns
\* or raises.
NextResponse ==
    /\ reader.pc = "look"
    /\ LET t == Taken(state) IN
        /\ SetState(t.state)
        /\ reader' = IF t.value = "continue"
                     THEN [reader EXCEPT !.pc = "consume"]
                     ELSE [reader EXCEPT !.pc = "idle",
                                         !.outcomes = Append(@, Outcome(t.value))]
    /\ UNCHANGED <<chan_vars, conn_vars, entry_vars>>
    /\ UNCHANGED <<method, inflight, sent, transport_cancels, spin, pump,
                   cancels, registrar, invocations, results, finalized>>

\* The accessors of _MultiThreadedRendezvous, each named by the field of the
\* state it waits for and returns.
Accessors ==
    {"initial_metadata", "trailing_metadata", "code", "details",
     "debug_error_string"}

\* _done of the accessor: its _common.wait returns once this holds
AccessorDone(accessor, st) ==
    CASE accessor = "initial_metadata" -> st.initial_metadata # None
      [] accessor = "trailing_metadata" -> st.trailing_metadata # None
      [] accessor = "code" -> st.code # None
      [] accessor = "details" -> st.details # None
      [] accessor = "debug_error_string" -> st.debug_error_string # None

\* _SingleThreadedRendezvous.initial_metadata: one round of its loop, which
\* runs _consume_next_event while state.initial_metadata is None, all of it
\* under state.condition.
SingleThreadedInitialMetadata ==
    /\ method = SingleThreadedUnaryStream
    /\ ~finalized
    /\ reader.pc \in {"idle", "metadata"}
    /\ state.initial_metadata = None
    /\ \E event \in CompletionEvents :
        LET r == _handle_event(event, state) IN
        /\ Taken_event(event)
        /\ SetState(r.state)
        /\ reader' = [reader EXCEPT !.pc =
                         IF r.raised THEN "raised"
                         ELSE IF r.state.initial_metadata = None THEN "metadata"
                         ELSE "idle"]
        /\ invocations' = InvokedAll(r.callbacks, "reader", TRUE, invocations)
    /\ UNCHANGED <<chan_vars, conn_vars, entry_vars>>
    /\ UNCHANGED <<method, transport_cancels, spin, pump, cancels,
                   registrar, results, finalized>>

\* -------------------------------------------------------- the future surface
\* An add_done_callback that appends the callback whenever there is a list to
\* append to, and calls it as well when the call is terminal.
add_done_callback_appending(st, fn) ==
    IF st.callbacks = NoCallbacks
    THEN [state |-> st, then |-> IF st.code = None THEN "raised" ELSE "calling"]
    ELSE [state |-> [st EXCEPT !.callbacks = Append(@, fn)],
          then |-> IF st.code = None THEN "appended" ELSE "calling"]

\* add_done_callback under state.condition (both variants): the callback is
\* appended while the call is not terminal, and is to be called otherwise.
\* Appending to callbacks = None raises.
add_done_callback(st, fn) ==
    IF st.code = None
    THEN IF st.callbacks = NoCallbacks
         THEN [state |-> st, then |-> "raised"]
         ELSE [state |-> [st EXCEPT !.callbacks = Append(@, fn)], then |-> "appended"]
    ELSE [state |-> st, then |-> "calling"]

AddDoneCallback(c) ==
    /\ ~finalized
    /\ registrar[c] = "new"
    /\ \A b \in Callbacks : b < c => registrar[b] # "new"
    /\ LET r == add_done_callback(state, FnName(c)) IN
        /\ SetState(r.state)
        /\ registrar' = [registrar EXCEPT ![c] = r.then]
    /\ UNCHANGED <<chan_vars, conn_vars, entry_vars>>
    /\ UNCHANGED <<method, inflight, sent, transport_cancels, spin, pump,
                   reader, cancels, invocations, results, finalized>>

\* add_done_callback after state.condition is released: fn(self)
AddDoneCallbackCall(c) ==
    /\ registrar[c] = "calling"
    /\ registrar' = [registrar EXCEPT ![c] = "called"]
    /\ invocations' = InvokedAll(<<FnName(c)>>, "caller", FALSE, invocations)
    /\ UNCHANGED <<chan_vars, conn_vars, entry_vars>>
    /\ UNCHANGED <<method, state, inflight, sent, code_log,
                   transport_cancels, spin, pump, reader, cancels, results,
                   finalized>>

FutureTimeoutError == "FutureTimeoutError"
FutureCancelledError == "FutureCancelledError"

\* A result() that does not look at state.cancelled.
result_without_cancelled(st, timed_out) ==
    IF timed_out THEN [raised |-> FutureTimeoutError, returned |-> None]
    ELSE IF st.code = OK THEN [raised |-> None, returned |-> st.response]
    ELSE [raised |-> RaiseSelf, returned |-> None]

\* _MultiThreadedRendezvous.result once its wait has ended, by the call being
\* terminal or by the timeout: what it raises or returns
result(st, timed_out) ==
    IF timed_out THEN [raised |-> FutureTimeoutError, returned |-> None]
    ELSE IF st.code = OK THEN [raised |-> None, returned |-> st.response]
    ELSE IF st.cancelled THEN [raised |-> FutureCancelledError, returned |-> None]
    ELSE [raised |-> RaiseSelf, returned |-> None]

\* result(timeout): _common.wait gives timed_out = True when the timeout ran
\* out with the call still not terminal. What result() found in the state is
\* kept with what it did.
Result ==
    /\ ~finalized
    /\ method \in MultiThreaded
    /\ Len(results) < MaxResults
    /\ results' = Append(results,
          [found |-> [code |-> state.code, cancelled |-> state.cancelled,
                      response |-> state.response],
           did |-> result(state, state.code = None)])
    /\ UNCHANGED <<chan_vars, conn_vars, entry_vars>>
    /\ UNCHANGED <<method, state, inflight, sent, code_log,
                   transport_cancels, spin, pump, reader, cancels, registrar,
                   invocations, finalized>>

\* _MultiThreadedRendezvous.exception once its wait has ended
exception(st, timed_out) ==
    IF timed_out THEN [raised |-> FutureTimeoutError, returned |-> None]
    ELSE IF st.code = OK THEN [raised |-> None, returned |-> None]
    ELSE IF st.cancelled THEN [raised |-> FutureCancelledError, returned |-> None]
    ELSE [raised |-> None, returned |-> "self"]

\* _MultiThreadedRendezvous.traceback once its wait has ended
traceback(st, timed_out) ==
    IF timed_out THEN [raised |-> FutureTimeoutError, returned |-> None]
    ELSE IF st.code = OK THEN [raised |-> None, returned |-> None]
    ELSE IF st.cancelled THEN [raised |-> FutureCancelledError, returned |-> None]
    ELSE [raised |-> None, returned |-> "sys.exc_info()[2]"]

UsageError == "UsageError"

\* _SingleThreadedRendezvous._is_complete
_is_complete(st) == st.code # None

\* A single-threaded result() that does not test _is_complete.
single_threaded_result_untested(st) ==
    IF st.code = OK THEN [raised |-> None, returned |-> st.response]
    ELSE IF st.cancelled THEN [raised |-> FutureCancelledError, returned |-> None]
    ELSE [raised |-> RaiseSelf, returned |-> None]

\* _SingleThreadedRendezvous.result
single_threaded_result(st) ==
    IF ~_is_complete(st) THEN [raised |-> UsageError, returned |-> None]
    ELSE IF st.code = OK THEN [raised |-> None, returned |-> st.response]
    ELSE IF st.cancelled THEN [raised |-> FutureCancelledError, returned |-> None]
    ELSE [raised |-> RaiseSelf, returned |-> None]

\* _SingleThreadedRendezvous.exception
single_threaded_exception(st) ==
    IF ~_is_complete(st) THEN [raised |-> UsageError, returned |-> None]
    ELSE IF st.code = OK THEN [raised |-> None, returned |-> None]
    ELSE IF st.cancelled THEN [raised |-> FutureCancelledError, returned |-> None]
    ELSE [raised |-> None, returned |-> "self"]

\* _SingleThreadedRendezvous.traceback
single_threaded_traceback(st) ==
    IF ~_is_complete(st) THEN [raised |-> UsageError, returned |-> None]
    ELSE IF st.code = OK THEN [raised |-> None, returned |-> None]
    ELSE IF st.cancelled THEN [raised |-> FutureCancelledError, returned |-> None]
    ELSE [raised |-> None, returned |-> "sys.exc_info()[2]"]

\* result(), exception() or traceback() of the single-threaded rendezvous,
\* each one block under state.condition. What the method found in the state
\* is kept with what it did.
SingleThreadedFuture ==
    /\ ~finalized
    /\ method = SingleThreadedUnaryStream
    /\ Len(results) < MaxResults
    /\ \E surface \in {"result", "exception", "traceback"} :
        results' = Append(results,
          [surface |-> surface,
           found |-> [code |-> state.code, cancelled |-> state.cancelled,
                      response |-> state.response],
           did |-> CASE surface = "result" -> single_threaded_result(state)
                     [] surface = "exception" -> single_threaded_exception(state)
                     [] surface = "traceback" -> single_threaded_traceback(state)])
    /\ UNCHANGED <<chan_vars, conn_vars, entry_vars>>
    /\ UNCHANGED <<method, state, inflight, sent, code_log,
                   transport_cancels, spin, pump, reader, cancels, registrar,
                   invocations, finalized>>

\* ------------------------------------------- the channel's managed calls
ManagedCalls == 1..MaxCalls

_ChannelCallState == [lock |-> "free", managed_calls |-> 0]

NoCall ==
    [created |-> FALSE, type |-> None, state |-> _RPCState({}, None, None, None, None),
     inflight |-> <<>>, operated |-> 0, requests_closed |-> FALSE]

NoCreator == [pc |-> "idle"]

ChanInit ==
    /\ call_state = _ChannelCallState
    /\ calls = [c \in ManagedCalls |-> NoCall]
    /\ spinners = <<>>
    /\ creator = NoCreator

\* create(), from taking state.lock to the update of state.managed_calls:
\* integrated_call starts the initial batches of the call, whose _RPCState
\* the multicallable made.
CreateCall(c, t) ==
    /\ creator.pc = "idle"
    /\ call_state.lock = "free"
    /\ ~calls[c].created
    /\ \A b \in ManagedCalls : b < c => calls[b].created
    /\ calls' = [calls EXCEPT ![c] =
                    [created |-> TRUE, type |-> t,
                     state |-> _RPCState(InitialDue(t), None, None, None, None),
                     inflight |-> InitialBatches(t),
                     operated |-> 0,
                     requests_closed |-> t \notin RequestStreaming]]
    /\ IF call_state.managed_calls = 0
       THEN /\ call_state' = [lock |-> "create", managed_calls |-> 1]
            /\ creator' = [pc |-> "run_channel_spin_thread"]
       ELSE /\ call_state' = [lock |-> "create",
                              managed_calls |-> call_state.managed_calls + 1]
            /\ creator' = [pc |-> "return"]
    /\ UNCHANGED <<call_vars, conn_vars, entry_vars, spinners>>

\* _run_channel_spin_thread(state), still under state.lock
CreateSpinThread ==
    /\ creator.pc = "run_channel_spin_thread"
    /\ spinners' = Append(spinners, "next_call_event")
    /\ creator' = [pc |-> "return"]
    /\ UNCHANGED <<call_vars, conn_vars, entry_vars, call_state, calls>>

\* create() returns the call and releases state.lock
CreateReturn ==
    /\ creator.pc = "return"
    /\ call_state' = [call_state EXCEPT !.lock = "free"]
    /\ creator' = NoCreator
    /\ UNCHANGED <<call_vars, conn_vars, entry_vars, calls, spinners>>

\* the completion events the transport can hand over for call `c`; what they
\* carry does not matter to the channel
CallCompletionEvents(c) ==
    {[index |-> i,
      batch_operations |-> calls[c].inflight[i],
      initial_metadata |-> "initial metadata",
      message |-> None,
      trailing_metadata |-> "trailing metadata",
      code |-> 0,
      details |-> "details",
      error_string |-> "error string"] : i \in 1..Len(calls[c].inflight)}

\* A spin thread that stays in its loop whatever state.managed_calls is.
channel_spin_continues(managed_calls) == FALSE

\* channel_spin's test after it decremented state.managed_calls
channel_spin_returns(managed_calls) == managed_calls = 0

\* A handler that reports the call complete as soon as it is terminal.
handler_done_when_terminal(st) == st.code # None

\* handle_event's `done = not state.due`, which it returns
handler_done(st) == st.due = {}

\* channel_spin: next_call_event() and event.tag(event), which is the call's
\* _event_handler.handle_event and returns whether state.due is empty
SpinEvent(w) ==
    /\ spinners[w] = "next_call_event"
    /\ \E c \in ManagedCalls : \E event \in CallCompletionEvents(c) :
        LET r == _handle_event(event, calls[c].state)
            call_completed == handler_done(r.state)
        IN /\ calls' = [calls EXCEPT ![c].state = r.state,
                                     ![c].inflight = Remove(@, event.index)]
           /\ spinners' = [spinners EXCEPT ![w] =
                             IF r.raised THEN "raised"
                             ELSE IF call_completed THEN "call_completed"
                             ELSE "next_call_event"]
    /\ UNCHANGED <<call_vars, conn_vars, entry_vars, call_state, creator>>

\* channel_spin takes state.lock and decrements state.managed_calls
SpinDecrement(w) ==
    /\ spinners[w] = "call_completed"
    /\ call_state.lock = "free"
    /\ call_state' = [lock |-> "spin",
                      managed_calls |-> call_state.managed_calls - 1]
    /\ spinners' = [spinners EXCEPT ![w] = "decremented"]
    /\ UNCHANGED <<call_vars, conn_vars, entry_vars, calls, creator>>

\* channel_spin returns when state.managed_calls is 0 and goes on otherwise,
\* releasing state.lock
SpinRelease(w) ==
    /\ spinners[w] = "decremented"
    /\ spinners' = [spinners EXCEPT ![w] =
                      IF channel_spin_returns(call_state.managed_calls)
                      THEN "returned" ELSE "next_call_event"]
    /\ call_state' = [call_state EXCEPT !.lock = "free"]
    /\ UNCHANGED <<call_vars, conn_vars, entry_vars, calls, creator>>

\* how many operations and cancel() the calls 1..c got after their creation
RECURSIVE Operated(_)
Operated(c) == IF c = 0 THEN 0 ELSE calls[c].operated + Operated(c - 1)

\* An operation submitted on a call after its creation, under
\* state.condition and only while state.code is None: the ReceiveMessage of
\* next(), or the pump's SendMessage or SendCloseFromClient.
CallOperate(c, kind) ==
    LET call == calls[c] IN
    /\ call.created
    /\ Operated(MaxCalls) < MaxOperations
    /\ call.state.code = None
    /\ kind \notin call.state.due
    /\ \/ kind = receive_message /\ call.type \in ResponseStreaming
       \/ kind \in {send_message, send_close_from_client} /\ ~call.requests_closed
    /\ kind = send_close_from_client => send_message \notin call.state.due
    /\ calls' = [calls EXCEPT
                    ![c].state.due = Added(@, kind),
                    ![c].inflight = Append(@, <<kind>>),
                    ![c].operated = @ + 1,
                    ![c].requests_closed = @ \/ kind = send_close_from_client]
    /\ UNCHANGED <<call_vars, conn_vars, entry_vars, call_state, spinners, creator>>

\* cancel() on a managed call
CallCancel(c) ==
    /\ calls[c].created
    /\ Operated(MaxCalls) < MaxOperations
    /\ calls[c].state.code = None
    /\ calls' = [calls EXCEPT ![c].state = cancel(@).state,
                              ![c].operated = @ + 1]
    /\ UNCHANGED <<call_vars, conn_vars, entry_vars, call_state, spinners, creator>>

ChanNext ==
    \/ \E c \in ManagedCalls, t \in MultiThreaded : CreateCall(c, t)
    \/ CreateSpinThread
    \/ CreateReturn
    \/ \E w \in 1..Len(spinners) : SpinEvent(w)
    \/ \E w \in 1..Len(spinners) : SpinDecrement(w)
    \/ \E w \in 1..Len(spinners) : SpinRelease(w)
    \/ \E c \in ManagedCalls, kind \in {receive_message, send_message,
                                        send_close_from_client} :
            CallOperate(c, kind)
    \/ \E c \in ManagedCalls : CallCancel(c)

\* ------------------------------------------------ connectivity subscriptions
\* the values of _common.CYGRPC_CONNECTIVITY_STATE_TO_CHANNEL_CONNECTIVITY
ChannelConnectivity == {"IDLE", "CONNECTING", "READY"}

\* the callback of the i-th _subscribe
SubscriberCallback(i) == "callback" \o ToString(i)

SubscriberCallbacks == {SubscriberCallback(i) : i \in 1..MaxSubscriptions}

_ChannelConnectivityState ==
    [polling |-> FALSE,
     connectivity |-> None,
     try_to_connect |-> FALSE,
     callbacks_and_connectivities |-> <<>>,
     delivering |-> FALSE]

RECURSIVE CallbacksOf(_)
CallbacksOf(callbacks_and_connectivities) ==
    IF callbacks_and_connectivities = <<>> THEN <<>>
    ELSE <<Head(callbacks_and_connectivities)[1]>>
            \o CallbacksOf(Tail(callbacks_and_connectivities))

Subscribed(st, callback) ==
    \E i \in 1..Len(st.callbacks_and_connectivities) :
        st.callbacks_and_connectivities[i][1] = callback

\* _deliveries: the callbacks whose recorded connectivity is not
\* state.connectivity, and the state with state.connectivity recorded for them
_deliveries(st) ==
    [callbacks_needing_update |->
        CallbacksOf(SelectSeq(st.callbacks_and_connectivities,
                              LAMBDA e : e[2] # st.connectivity)),
     state |->
        [st EXCEPT !.callbacks_and_connectivities =
            [i \in 1..Len(@) |-> <<@[i][1], st.connectivity>>]]]

\* _spawn_delivery: a thread running _deliver(state, state.connectivity,
\* callbacks) is started ...
Spawned(threads, st, callbacks) ==
    Append(threads, [connectivity |-> st.connectivity, callbacks |-> callbacks])

\* ... and state.delivering is set
Delivering(st) == [st EXCEPT !.delivering = TRUE]

NoPoller == [pc |-> "none", try_to_connect |-> FALSE]

ConnInit ==
    /\ connectivity_state = _ChannelConnectivityState
    /\ poller = NoPoller
    /\ deliverers = <<>>
    /\ level_log = <<>>
    /\ observed = [callback \in SubscriberCallbacks |-> <<>>]
    /\ subscriptions = 0

\* A _subscribe that starts a polling thread whenever nobody is subscribed,
\* whatever state.polling is.
Subscribe_polling_untested(callback, try_to_connect) ==
    LET st == connectivity_state IN
    /\ subscriptions < MaxSubscriptions
    /\ callback = SubscriberCallback(subscriptions + 1)
    /\ subscriptions' = subscriptions + 1
    /\ IF st.callbacks_and_connectivities = <<>>
       THEN /\ poller' = [pc |-> "initial", try_to_connect |-> try_to_connect]
            /\ connectivity_state' =
                  [st EXCEPT !.polling = TRUE,
                             !.callbacks_and_connectivities = Append(@, <<callback, None>>)]
            /\ UNCHANGED deliverers
       ELSE IF ~st.delivering /\ st.connectivity # None
       THEN /\ deliverers' = Spawned(deliverers, st, <<callback>>)
            /\ connectivity_state' =
                  [Delivering(st) EXCEPT
                      !.try_to_connect = @ \/ try_to_connect,
                      !.callbacks_and_connectivities =
                          Append(@, <<callback, st.connectivity>>)]
            /\ UNCHANGED poller
       ELSE /\ connectivity_state' =
                  [st EXCEPT !.try_to_connect = @ \/ try_to_connect,
                             !.callbacks_and_connectivities = Append(@, <<callback, None>>)]
            /\ UNCHANGED <<poller, deliverers>>
    /\ UNCHANGED <<call_vars, chan_vars, entry_vars, level_log, observed>>

\* _subscribe(state, callback, try_to_connect) under state.lock
Subscribe(callback, try_to_connect) ==
    LET st == connectivity_state IN
    /\ subscriptions < MaxSubscriptions
    /\ callback = SubscriberCallback(subscriptions + 1)
    /\ subscriptions' = subscriptions + 1
    /\ IF st.callbacks_and_connectivities = <<>> /\ ~st.polling
       THEN /\ poller' = [pc |-> "initial", try_to_connect |-> try_to_connect]
            /\ connectivity_state' =
                  [st EXCEPT !.polling = TRUE,
                             !.callbacks_and_connectivities = Append(@, <<callback, None>>)]
            /\ UNCHANGED deliverers
       ELSE IF ~st.delivering /\ st.connectivity # None
       THEN /\ deliverers' = Spawned(deliverers, st, <<callback>>)
            /\ connectivity_state' =
                  [Delivering(st) EXCEPT
                      !.try_to_connect = @ \/ try_to_connect,
                      !.callbacks_and_connectivities =
                          Append(@, <<callback, st.connectivity>>)]
            /\ UNCHANGED poller
       ELSE /\ connectivity_state' =
                  [st EXCEPT !.try_to_connect = @ \/ try_to_connect,
                             !.callbacks_and_connectivities = Append(@, <<callback, None>>)]
            /\ UNCHANGED <<poller, deliverers>>
    /\ UNCHANGED <<call_vars, chan_vars, entry_vars, level_log, observed>>

\* _unsubscribe(state, callback) under state.lock
Unsubscribe(callback) ==
    /\ Subscribed(connectivity_state, callback)
    /\ connectivity_state' =
          [connectivity_state EXCEPT !.callbacks_and_connectivities =
              SelectSeq(@, LAMBDA e : e[1] # callback)]
    /\ UNCHANGED <<call_vars, chan_vars, entry_vars, poller, deliverers, level_log, observed,
                   subscriptions>>

\* Channel._unsubscribe_all under state.lock
UnsubscribeAll ==
    /\ connectivity_state.callbacks_and_connectivities # <<>>
    /\ connectivity_state' =
          [connectivity_state EXCEPT !.callbacks_and_connectivities = <<>>]
    /\ UNCHANGED <<call_vars, chan_vars, entry_vars, poller, deliverers, level_log, observed,
                   subscriptions>>

\* channel.check_connectivity_state: any level, until the channel has been
\* read MaxPolls times; from then on its level has stopped changing, and a
\* read gives the level of the last read
Checked ==
    IF Len(level_log) < MaxPolls THEN ChannelConnectivity
    ELSE {level_log[Len(level_log)]}

\* level_log after `connectivity` was read and stored
Stored(connectivity) ==
    IF Len(level_log) < MaxPolls THEN Append(level_log, connectivity)
    ELSE level_log

\* _poll_connectivity up to its loop: the first check_connectivity_state and
\* the locked block that stores its result and starts a delivery to every
\* subscriber.
PollInitial ==
    /\ poller.pc = "initial"
    /\ \E connectivity \in Checked :
        LET st == [connectivity_state EXCEPT
                      !.connectivity = connectivity,
                      !.callbacks_and_connectivities =
                          [i \in 1..Len(@) |-> <<@[i][1], connectivity>>]]
            callbacks == CallbacksOf(connectivity_state.callbacks_and_connectivities)
        IN /\ level_log' = Stored(connectivity)
           /\ IF callbacks # <<>>
              THEN /\ deliverers' = Spawned(deliverers, st, callbacks)
                   /\ connectivity_state' = Delivering(st)
              ELSE /\ connectivity_state' = st
                   /\ UNCHANGED deliverers
    /\ poller' = [poller EXCEPT !.pc = "watch"]
    /\ UNCHANGED <<call_vars, chan_vars, entry_vars, observed, subscriptions>>

\* A polling thread that ends as soon as nobody is subscribed.
PollerExitsWhenEmpty(st) == st.callbacks_and_connectivities = <<>>

\* the test under which the polling thread ends
PollerExits(st) ==
    st.callbacks_and_connectivities = <<>> /\ ~st.try_to_connect

\* The loop of _poll_connectivity: watch_connectivity_state returns, and under
\* state.lock the thread ends when nobody is subscribed, and takes
\* state.try_to_connect otherwise.
PollWatch ==
    /\ poller.pc = "watch"
    /\ LET st == connectivity_state IN
       IF PollerExits(st)
       THEN /\ connectivity_state' = [st EXCEPT !.polling = FALSE, !.connectivity = None]
            /\ poller' = NoPoller
       ELSE \E success \in BOOLEAN :
            /\ connectivity_state' = [st EXCEPT !.try_to_connect = FALSE]
            /\ poller' = [pc |-> IF success \/ st.try_to_connect
                                 THEN "check" ELSE "watch",
                          try_to_connect |-> st.try_to_connect]
    /\ UNCHANGED <<call_vars, chan_vars, entry_vars, deliverers, level_log, observed, subscriptions>>

\* check_connectivity_state after a change, and the locked block that stores
\* its result and starts a delivery unless one is running.
PollCheck ==
    /\ poller.pc = "check"
    /\ \E connectivity \in Checked :
        LET st == [connectivity_state EXCEPT !.connectivity = connectivity]
            r == _deliveries(st)
        IN /\ level_log' = Stored(connectivity)
           /\ IF ~st.delivering /\ r.callbacks_needing_update # <<>>
              THEN /\ deliverers' = Spawned(deliverers, r.state, r.callbacks_needing_update)
                   /\ connectivity_state' = Delivering(r.state)
              ELSE /\ connectivity_state' = IF st.delivering THEN st ELSE r.state
                   /\ UNCHANGED deliverers
    /\ poller' = [poller EXCEPT !.pc = "watch"]
    /\ UNCHANGED <<call_vars, chan_vars, entry_vars, observed, subscriptions>>

\* _deliver: callback(connectivity) for the next of its callbacks, without
\* state.lock
DeliverCallback(d) ==
    /\ deliverers[d].callbacks # <<>>
    /\ observed' = [observed EXCEPT ![Head(deliverers[d].callbacks)] =
                        Append(@, deliverers[d].connectivity)]
    /\ deliverers' = [deliverers EXCEPT ![d].callbacks = Tail(@)]
    /\ UNCHANGED <<call_vars, chan_vars, entry_vars, connectivity_state, poller, level_log,
                   subscriptions>>

\* _deliver after its callbacks: under state.lock it takes the next
\* deliveries, or clears state.delivering and ends
DeliverNext(d) ==
    /\ deliverers[d].callbacks = <<>>
    /\ LET r == _deliveries(connectivity_state) IN
       IF r.callbacks_needing_update # <<>>
       THEN /\ deliverers' =
                  [deliverers EXCEPT
                      ![d] = [connectivity |-> connectivity_state.connectivity,
                              callbacks |-> r.callbacks_needing_update]]
            /\ connectivity_state' = r.state
       ELSE /\ deliverers' = Remove(deliverers, d)
            /\ connectivity_state' = [r.state EXCEPT !.delivering = FALSE]
    /\ UNCHANGED <<call_vars, chan_vars, entry_vars, poller, level_log, observed, subscriptions>>

ConnNext ==
    \/ \E callback \in SubscriberCallbacks, try_to_connect \in BOOLEAN :
            Subscribe(callback, try_to_connect)
    \/ \E callback \in SubscriberCallbacks : Unsubscribe(callback)
    \/ UnsubscribeAll
    \/ PollInitial
    \/ PollWatch
    \/ PollCheck
    \/ \E d \in 1..Len(deliverers) : DeliverCallback(d)
    \/ \E d \in 1..Len(deliverers) : DeliverNext(d)

\* ------------------------------------------------------- the entry points
\* The blocking entry points, which hand out no rendezvous of their own.
UnaryUnaryCall == "unary_unary.__call__"
UnaryUnaryWithCall == "unary_unary.with_call"
StreamUnaryCall == "stream_unary.__call__"
StreamUnaryWithCall == "stream_unary.with_call"

EntryPoints ==
    CallTypes \cup {UnaryUnaryCall, UnaryUnaryWithCall, StreamUnaryCall,
                    StreamUnaryWithCall}

\* entry points that take one request and serialize it before anything else
UnaryRequest ==
    {UnaryUnaryCall, UnaryUnaryWithCall, UnaryUnaryFuture, UnaryStream,
     SingleThreadedUnaryStream}

\* Entry points of which the single-threaded unary-stream one creates a
\* managed call.
SegregatedBlocking ==
    {UnaryUnaryCall, UnaryUnaryWithCall, StreamUnaryCall, StreamUnaryWithCall}

\* entry points that create their call with channel.segregated_call
Segregated ==
    {UnaryUnaryCall, UnaryUnaryWithCall, SingleThreadedUnaryStream,
     StreamUnaryCall, StreamUnaryWithCall}

\* A timeout or deadline is None, written <<>>, or a number n, written <<n>>.
NoDeadline == <<>>

\* _deadline(timeout), with time.time() reading `now`
_deadline(timeout, now) ==
    IF timeout = NoDeadline THEN NoDeadline ELSE <<now + timeout[1]>>

\* _determine_deadline(user_deadline); parent_deadline is what
\* cygrpc.get_deadline_from_context() gives
_determine_deadline(user_deadline, parent_deadline) ==
    IF parent_deadline = NoDeadline /\ user_deadline = NoDeadline THEN NoDeadline
    ELSE IF parent_deadline # NoDeadline /\ user_deadline = NoDeadline
         THEN parent_deadline
    ELSE IF user_deadline # NoDeadline /\ parent_deadline = NoDeadline
         THEN user_deadline
    ELSE <<IF parent_deadline[1] <= user_deadline[1]
           THEN parent_deadline[1] ELSE user_deadline[1]>>

\* the deadline argument each entry point passes when it creates its call
DeadlineArgument(point, deadline, parent_deadline) ==
    IF point \in {UnaryUnaryFuture, StreamUnaryFuture}
    THEN deadline
    ELSE _determine_deadline(deadline, parent_deadline)

NoError == [code |-> None, details |-> None]

\* _InactiveRpcError(state), by the code and details of its state
_InactiveRpcError(st) == [code |-> st.code, details |-> st.details]

\* A _start_unary_request that does not test what the serializer gave.
_start_unary_request_unchecked(request, timeout, now) ==
    [deadline |-> _deadline(timeout, now),
     serialized_request |-> serialize(request),
     error |-> NoError]

\* _start_unary_request: (deadline, serialized_request, error)
_start_unary_request(request, timeout, now) ==
    IF serialize(request) = None
    THEN [deadline |-> _deadline(timeout, now),
          serialized_request |-> None,
          error |-> _InactiveRpcError(
                        _RPCState({}, "()", "()", INTERNAL,
                                  "Exception serializing request!"))]
    ELSE [deadline |-> _deadline(timeout, now),
          serialized_request |-> serialize(request),
          error |-> NoError]

\* _end_unary_response_blocking: the response, with the call when asked for,
\* or the _InactiveRpcError it raises
_end_unary_response_blocking(st, with_call) ==
    IF st.code = OK
    THEN [returned |-> st.response, with_rendezvous |-> with_call, raised |-> NoError]
    ELSE [returned |-> None, with_rendezvous |-> FALSE, raised |-> _InactiveRpcError(st)]

NotEnded == [returned |-> None, with_rendezvous |-> FALSE, raised |-> NoError]

Timeouts == {NoDeadline} \cup {<<t>> : t \in 1..MaxTimeout}
ParentDeadlines == {NoDeadline} \cup {<<d>> : d \in 1..MaxParentDeadline}

\* An entry point about to be invoked with its arguments.
EntryInit ==
    \E point \in EntryPoints, timeout \in Timeouts,
       parent_deadline \in ParentDeadlines, now \in 0..MaxNow :
    \E request \in (IF point \in UnaryRequest
                    THEN {Request(1), Unserializable} ELSE {Request(1)}) :
        entry = [pc |-> "start", point |-> point, request |-> request,
                 timeout |-> timeout, parent_deadline |-> parent_deadline,
                 now |-> now, deadline |-> NoDeadline,
                 state |-> _RPCState({}, None, None, None, None),
                 transport |-> <<>>, error |-> NoError, ended |-> NotEnded]

\* no entry point is invoked
EntryIdle ==
    entry = [pc |-> "none", point |-> UnaryUnaryFuture, request |-> Request(1),
             timeout |-> NoDeadline, parent_deadline |-> NoDeadline,
             now |-> 0, deadline |-> NoDeadline,
             state |-> _RPCState({}, None, None, None, None),
             transport |-> <<>>, error |-> NoError, ended |-> NotEnded]

\* The entry point up to the creation of its call: the deadline, and for one
\* request its serialization, whose failure is raised as _InactiveRpcError.
EntryStart ==
    /\ entry.pc = "start"
    /\ LET started ==
              IF entry.point = SingleThreadedUnaryStream
              THEN [deadline |-> _deadline(entry.timeout, entry.now),
                    serialized_request |-> serialize(entry.request),
                    error |-> IF serialize(entry.request) = None
                              THEN _InactiveRpcError(
                                       _RPCState({}, "()", "()", INTERNAL,
                                                 "Exception serializing request!"))
                              ELSE NoError]
              ELSE IF entry.point \in UnaryRequest
              THEN _start_unary_request(entry.request, entry.timeout, entry.now)
              ELSE [deadline |-> _deadline(entry.timeout, entry.now),
                    serialized_request |-> None,
                    error |-> NoError]
       IN entry' = [entry EXCEPT
                       !.deadline = started.deadline,
                       !.error = started.error,
                       !.pc = IF started.error # NoError THEN "raised" ELSE "call",
                       !.state = IF started.error # NoError THEN @
                                 ELSE _RPCState(InitialDue(
                                          CASE entry.point \in {UnaryUnaryCall, UnaryUnaryWithCall}
                                                 -> UnaryUnaryFuture
                                            [] entry.point \in {StreamUnaryCall, StreamUnaryWithCall}
                                                 -> StreamUnaryFuture
                                            [] OTHER -> entry.point),
                                          None, None, None, None)]
    /\ UNCHANGED <<call_vars, chan_vars, conn_vars, flagged, handling>>

\* channel.segregated_call(..., deadline, ...)
EntrySegregatedCall ==
    /\ entry.pc = "call"
    /\ entry.point \in Segregated
    /\ entry' = [entry EXCEPT
          !.transport = Append(@,
              [operation |-> "segregated_call",
               deadline |-> DeadlineArgument(entry.point, entry.deadline,
                                             entry.parent_deadline)]),
          !.pc = IF entry.point \in {UnaryUnaryCall, UnaryUnaryWithCall}
                 THEN "next_event" ELSE "returned"]
    /\ UNCHANGED <<call_vars, chan_vars, conn_vars, flagged, handling>>

\* self._managed_call(..., deadline, ...): create() is entered with the
\* arguments it passes on to channel.integrated_call
EntryManagedCall ==
    /\ entry.pc = "call"
    /\ entry.point \notin Segregated
    /\ entry' = [entry EXCEPT
          !.transport = Append(@,
              [operation |-> "integrated_call",
               deadline |-> DeadlineArgument(entry.point, entry.deadline,
                                             entry.parent_deadline)]),
          !.pc = "create"]
    /\ UNCHANGED <<call_vars, chan_vars, conn_vars, flagged, handling>>

\* create() for the entry point's call
EntryCreate ==
    /\ entry.pc = "create"
    /\ CreateCall(1, entry.point)

\* create() has returned the call, and the entry point returns the rendezvous
EntryReturn ==
    /\ entry.pc = "create"
    /\ calls[1].created
    /\ creator = NoCreator
    /\ entry' = [entry EXCEPT !.pc = "returned"]
    /\ UNCHANGED <<call_vars, chan_vars, conn_vars, flagged, handling>>

\* the one completion event of a blocking unary-unary call
BlockingEvents ==
    {[index |-> 1,
      batch_operations |-> InitialBatches(UnaryUnaryFuture)[1],
      initial_metadata |-> "initial metadata",
      message |-> message,
      trailing_metadata |-> "trailing metadata",
      code |-> code,
      details |-> "details",
      error_string |-> "error string"] :
        message \in {None, Garbage, serialize(Message(1))}, code \in TransportCodes}

\* _UnaryUnaryMultiCallable._blocking after segregated_call, and
\* _end_unary_response_blocking: the call's one event is taken and handled,
\* and the entry point returns or raises.
EntryBlockingEnd ==
    /\ entry.pc = "next_event"
    /\ \E event \in BlockingEvents :
        LET r == _handle_event(event, entry.state) IN
        entry' = [entry EXCEPT
            !.state = r.state,
            !.ended = _end_unary_response_blocking(
                          r.state, entry.point = UnaryUnaryWithCall),
            !.pc = "returned"]
    /\ UNCHANGED <<call_vars, chan_vars, conn_vars, flagged, handling>>

\* _StreamUnaryMultiCallable._blocking has created its call and started the
\* pump, and enters its loop
EntryBlockingLoop ==
    entry = [pc |-> "loop", point |-> StreamUnaryCall, request |-> Request(1),
             timeout |-> NoDeadline, parent_deadline |-> NoDeadline,
             now |-> 0, deadline |-> NoDeadline,
             state |-> _RPCState({}, None, None, None, None),
             transport |-> <<>>, error |-> NoError, ended |-> NotEnded]

\* A loop that takes one event and ends, as the blocking unary-unary entry
\* point does.
loop_breaks_after_one_event(st) == TRUE

\* `if not state.due: break`
loop_breaks(st) == st.due = {}

\* One round of the loop of _StreamUnaryMultiCallable._blocking:
\* call.next_event(), and under state.condition _handle_event, notify_all and
\* the test that ends the loop.
BlockingLoop ==
    /\ entry.pc = "loop"
    /\ \E event \in CompletionEvents :
        LET r == _handle_event(event, state) IN
        /\ Taken_event(event)
        /\ SetState(r.state)
        /\ entry' = [entry EXCEPT !.pc = IF r.raised THEN "raised"
                                         ELSE IF loop_breaks(r.state) THEN "returned"
                                         ELSE "loop"]
    /\ UNCHANGED <<chan_vars, conn_vars, flagged, handling>>
    /\ UNCHANGED <<method, transport_cancels, spin, pump, reader, cancels,
                   registrar, invocations, results, finalized>>

EntryNext ==
    \/ EntryStart
    \/ EntrySegregatedCall
    \/ EntryManagedCall
    \/ EntryCreate
    \/ CreateSpinThread
    \/ CreateReturn
    \/ EntryReturn
    \/ EntryBlockingEnd

\* ------------------------------------------------ initial metadata flags
\* An _InitialMetadataFlags value is an int read as the set of its bits.
wait_for_ready == "wait_for_ready"
wait_for_ready_explicitly_set == "wait_for_ready_explicitly_set"

\* the bits of cygrpc.InitialMetadataFlags.used_mask
used_mask ==
    {"idempotent_request", wait_for_ready, "cacheable_request",
     wait_for_ready_explicitly_set, "corked"}

\* a bit outside used_mask
UnusedBit == "unused"

\* _InitialMetadataFlags.__new__: value &= used_mask
_InitialMetadataFlags(value) == value \cap used_mask

\* the wait_for_ready argument: None, True or False
WaitForReady == {None, "True", "False"}

\* A with_wait_for_ready whose False branch clears wait_for_ready only.
with_wait_for_ready_clearing(self, w) ==
    IF w # None
    THEN IF w = "True"
         THEN _InitialMetadataFlags(
                  self \cup {wait_for_ready} \cup {wait_for_ready_explicitly_set})
         ELSE _InitialMetadataFlags(self \ {wait_for_ready})
    ELSE self

\* _InitialMetadataFlags.with_wait_for_ready
with_wait_for_ready(self, w) ==
    IF w # None
    THEN IF w = "True"
         THEN _InitialMetadataFlags(
                  self \cup {wait_for_ready} \cup {wait_for_ready_explicitly_set})
         ELSE _InitialMetadataFlags(
                  (self \ {wait_for_ready}) \cup {wait_for_ready_explicitly_set})
    ELSE self

\* A flags value made from any int, with no setter applied yet.
FlagInit ==
    \E value \in SUBSET (used_mask \cup {UnusedBit}) :
        flagged = [flags |-> _InitialMetadataFlags(value),
                   before |-> _InitialMetadataFlags(value), applied |-> <<>>]

\* no flags value is looked at
FlagIdle == flagged = [flags |-> {}, before |-> {}, applied |-> <<>>]

\* flags = flags.with_wait_for_ready(w); `before` keeps the value the setter
\* was applied to
WithWaitForReady ==
    /\ Len(flagged.applied) < MaxSetters
    /\ \E w \in WaitForReady :
        flagged' = [flags |-> with_wait_for_ready(flagged.flags, w),
                    before |-> flagged.flags,
                    applied |-> Append(flagged.applied, w)]
    /\ UNCHANGED <<call_vars, chan_vars, conn_vars, entry, handling>>

\* ------------------------------------------ the drained callbacks invoked
\* A callable in state.callbacks: add_done_callback appended
\* functools.partial(fn, self), which has the attribute func; add_callback
\* appended the caller's callable as it is, with that attribute or without.
DrainedCallables ==
    {c \in [by : {"add_done_callback", "add_callback"},
            func : BOOLEAN, raises : BOOLEAN] :
        c.by = "add_done_callback" => c.func}

RECURSIVE SeqsUpTo(_, _)
SeqsUpTo(S, n) ==
    IF n = 0 THEN {<<>>}
    ELSE LET shorter == SeqsUpTo(S, n - 1)
         IN shorter \cup {Append(q, x) : q \in shorter, x \in S}

\* handle_event has left state.condition with the callbacks it drained and
\* with `done`; the channel spin thread runs it
HandlerInit ==
    \E callbacks \in SeqsUpTo(DrainedCallables, MaxDrained),
       done \in BOOLEAN, fork_epoch_current \in BOOLEAN :
        handling = [pc |-> "callbacks", callbacks |-> callbacks, done |-> done,
                    fork_epoch_current |-> fork_epoch_current,
                    invoked |-> <<>>, logged |-> <<>>,
                    returned |-> None, channel_spin |-> "running",
                    caller |-> "channel_spin"]

\* no handler is looked at
HandlerIdle ==
    handling = [pc |-> "idle", callbacks |-> <<>>, done |-> FALSE,
                fork_epoch_current |-> TRUE, invoked |-> <<>>, logged |-> <<>>,
                returned |-> None, channel_spin |-> "running",
                caller |-> "channel_spin"]

\* One round of `for callback in callbacks`: callback() in the try block; in
\* the except block logging.error(..., repr(callback.func), repr(e)), whose
\* callback.func raises AttributeError for a callable without that attribute.
\* That exception leaves handle_event, and channel_spin, which called it as
\* event.tag(event) with no handler around it.
HandleEventCallback ==
    /\ handling.pc = "callbacks"
    /\ Len(handling.invoked) < Len(handling.callbacks)
    /\ LET i == Len(handling.invoked) + 1
           callback == handling.callbacks[i]
       IN handling' =
            IF ~callback.raises
            THEN [handling EXCEPT !.invoked = Append(@, i)]
            ELSE IF callback.func
                 THEN [handling EXCEPT !.invoked = Append(@, i),
                                       !.logged = Append(@, i)]
                 ELSE [handling EXCEPT !.invoked = Append(@, i),
                                       !.pc = "raised",
                                       !.channel_spin = "dead"]
    /\ UNCHANGED <<call_vars, chan_vars, conn_vars, entry, flagged>>

\* return done and state.fork_epoch >= cygrpc.get_fork_epoch()
HandleEventReturn ==
    /\ handling.pc = "callbacks"
    /\ Len(handling.invoked) = Len(handling.callbacks)
    /\ handling' = [handling EXCEPT
          !.pc = "returned",
          !.returned = IF handling.done /\ handling.fork_epoch_current
                       THEN "True" ELSE "False"]
    /\ UNCHANGED <<call_vars, chan_vars, conn_vars, entry, flagged>>

\* _SingleThreadedRendezvous._consume_next_event has applied an event that
\* drained `callbacks`, on the thread that called it: _next_response for a
\* next(), or initial_metadata()
ConsumerInit ==
    \E callbacks \in SeqsUpTo(DrainedCallables, MaxDrained),
       caller \in {"_next_response", "initial_metadata"} :
        handling = [pc |-> "consuming", callbacks |-> callbacks, done |-> FALSE,
                    fork_epoch_current |-> TRUE,
                    invoked |-> <<>>, logged |-> <<>>,
                    returned |-> None, channel_spin |-> "running",
                    caller |-> caller]

\* One round of `for callback in callbacks: callback()`, with no try around
\* it: an exception of the callback ends the loop and leaves
\* _consume_next_event for its caller.
ConsumeCallback ==
    /\ handling.pc = "consuming"
    /\ Len(handling.invoked) < Len(handling.callbacks)
    /\ LET i == Len(handling.invoked) + 1 IN
       handling' =
            IF handling.callbacks[i].raises
            THEN [handling EXCEPT !.invoked = Append(@, i), !.pc = "raised"]
            ELSE [handling EXCEPT !.invoked = Append(@, i)]
    /\ UNCHANGED <<call_vars, chan_vars, conn_vars, entry, flagged>>

\* return event
ConsumeReturn ==
    /\ handling.pc = "consuming"
    /\ Len(handling.invoked) = Len(handling.callbacks)
    /\ handling' = [handling EXCEPT !.pc = "returned", !.returned = "event"]
    /\ UNCHANGED <<call_vars, chan_vars, conn_vars, entry, flagged>>

\* ---------------------------------------------------------- specifications
\* One call: the transport, the dispatch of its events, the pump, next(),
\* cancel() and finalization.
Next ==
    \/ HandleEventLocked
    \/ HandleEventCallbacks
    \/ PumpIterate
    \/ PumpAbortTest
    \/ PumpAbortWrite
    \/ PumpSubmit
    \/ PumpWait
    \/ PumpClose
    \/ Cancel
    \/ Finalize
    \/ MultiThreadedNext
    \/ MultiThreadedNextWait
    \/ SingleThreadedNext
    \/ ConsumeNextEvent
    \/ NextResponse

Init == CallInit /\ ChanInit /\ ConnInit /\ EntryIdle /\ FlagIdle /\ HandlerIdle

Spec == Init /\ [][Next]_vars

\* The call with its pump scheduled fairly: the pump is a running thread, and
\* its wait is woken by notify_all or by the timeout of _common.wait.
PumpFairness == WF_vars(PumpWait)

PumpLiveSpec == Init /\ [][Next]_vars /\ PumpFairness

\* The call with the transport delivering every completion it owes and the
\* channel spin thread dispatching it.
DispatchFairness ==
    /\ WF_vars(HandleEventLocked)
    /\ WF_vars(HandleEventCallbacks)

DispatchLiveSpec == Init /\ [][Next]_vars /\ DispatchFairness

\* The call with done-callbacks added to it.
CallbackNext ==
    \/ Next
    \/ \E c \in Callbacks : AddDoneCallback(c)
    \/ \E c \in Callbacks : AddDoneCallbackCall(c)

CallbackSpec == Init /\ [][CallbackNext]_vars

\* The call with result() invoked on it.
ResultNext ==
    \/ Next
    \/ Result

ResultSpec == Init /\ [][ResultNext]_vars

\* The call with the future surface of the single-threaded rendezvous invoked
\* on it.
SingleThreadedFutureNext ==
    \/ Next
    \/ SingleThreadedFuture

SingleThreadedSpec == Init /\ [][SingleThreadedFutureNext]_vars

\* The channel with its managed calls and spin threads in motion.
ChanSpecInit ==
    /\ CallInit /\ method = UnaryUnaryFuture
    /\ ChanInit /\ ConnInit /\ EntryIdle /\ FlagIdle /\ HandlerIdle

ChanSpec == ChanSpecInit /\ [][ChanNext]_vars

\* The channel with nothing but its connectivity subscriptions in motion: the
\* call stays as unary_unary.future made it.
ConnSpecInit ==
    /\ CallInit /\ method = UnaryUnaryFuture
    /\ ChanInit /\ ConnInit /\ EntryIdle /\ FlagIdle /\ HandlerIdle

ConnSpec == ConnSpecInit /\ [][ConnNext]_vars

\* The connectivity threads with their scheduling: the polling thread and the
\* delivery threads are daemon threads that keep running, and a callback
\* returns.
ConnFairness ==
    /\ WF_vars(PollInitial)
    /\ WF_vars(PollWatch)
    /\ WF_vars(PollCheck)
    /\ WF_vars(\E d \in 1..Len(deliverers) : DeliverCallback(d))
    /\ WF_vars(\E d \in 1..Len(deliverers) : DeliverNext(d))

ConnLiveSpec == ConnSpecInit /\ [][ConnNext]_vars /\ ConnFairness

\* The subscriptions and the polling thread alone: the delivery threads are
\* started and do not get to run. What _subscribe and _poll_connectivity do
\* to state.polling depends on the subscriptions and on try_to_connect only.
PollNext ==
    \/ \E callback \in SubscriberCallbacks, try_to_connect \in BOOLEAN :
            Subscribe(callback, try_to_connect)
    \/ \E callback \in SubscriberCallbacks : Unsubscribe(callback)
    \/ UnsubscribeAll
    \/ PollInitial
    \/ PollWatch
    \/ PollCheck

PollSpec == ConnSpecInit /\ [][PollNext]_vars

\* The polling thread is a daemon thread that keeps running: its watch
\* returns after 0.2 s at the latest.
PollFairness ==
    /\ WF_vars(PollInitial)
    /\ WF_vars(PollWatch)
    /\ WF_vars(PollCheck)

PollLiveSpec == ConnSpecInit /\ [][PollNext]_vars /\ PollFairness

\* an entry point invoked on a channel with no call yet
EntrySpecInit ==
    /\ CallInit /\ method = UnaryUnaryFuture
    /\ ChanInit /\ ConnInit /\ EntryInit /\ FlagIdle /\ HandlerIdle

EntrySpec == EntrySpecInit /\ [][EntryNext]_vars

FlagSpecInit ==
    /\ CallInit /\ method = UnaryUnaryFuture
    /\ ChanInit /\ ConnInit /\ EntryIdle /\ FlagInit /\ HandlerIdle

FlagNext == WithWaitForReady

FlagSpec == FlagSpecInit /\ [][FlagNext]_vars

\* The call as a multicallable created it: one that hands out a rendezvous,
\* dispatched by the channel spin thread or by its reader, or the call of the
\* blocking stream-unary entry point, dispatched by the loop of _blocking
\* while the pump runs.
CreatedInit ==
    /\ CallInit /\ ChanInit /\ ConnInit /\ FlagIdle /\ HandlerIdle
    /\ EntryIdle \/ (method = StreamUnaryFuture /\ EntryBlockingLoop)

CreatedNext ==
    \/ entry.pc = "none" /\ Next
    \/ entry.pc # "none" /\ BlockingLoop
    \/ entry.pc # "none" /\ PumpIterate
    \/ entry.pc # "none" /\ PumpAbortTest
    \/ entry.pc # "none" /\ PumpAbortWrite
    \/ entry.pc # "none" /\ PumpSubmit
    \/ entry.pc # "none" /\ PumpWait
    \/ entry.pc # "none" /\ PumpClose

CreatedSpec == CreatedInit /\ [][CreatedNext]_vars

\* Every entry point invoked once, and the call of the single-threaded
\* unary-stream one run by its caller after the entry point returned it:
\* next(), initial_metadata(), cancel() from another thread, finalization.
SingleThreadedCallInit ==
    /\ CallInit /\ method = SingleThreadedUnaryStream
    /\ ChanInit /\ ConnInit /\ EntryInit /\ FlagIdle /\ HandlerIdle

SingleThreadedCallReturned ==
    entry.point = SingleThreadedUnaryStream /\ entry.pc = "returned"

SingleThreadedCallNext ==
    \/ EntryNext
    \/ SingleThreadedCallReturned /\ SingleThreadedNext
    \/ SingleThreadedCallReturned /\ ConsumeNextEvent
    \/ SingleThreadedCallReturned /\ NextResponse
    \/ SingleThreadedCallReturned /\ SingleThreadedInitialMetadata
    \/ SingleThreadedCallReturned /\ reader.pc # "metadata" /\ Cancel
    \/ SingleThreadedCallReturned /\ Finalize

SingleThreadedCallSpec == SingleThreadedCallInit /\ [][SingleThreadedCallNext]_vars

\* handle_event after state.condition, on the callbacks of one receive-status
HandlerSpecInit ==
    /\ CallInit /\ method = UnaryUnaryFuture
    /\ ChanInit /\ ConnInit /\ EntryIdle /\ FlagIdle /\ HandlerInit

HandlerNext == HandleEventCallback \/ HandleEventReturn

HandlerSpec == HandlerSpecInit /\ [][HandlerNext]_vars

\* _consume_next_event on the callbacks of one receive-status
ConsumerSpecInit ==
    /\ CallInit /\ method = SingleThreadedUnaryStream
    /\ ChanInit /\ ConnInit /\ EntryIdle /\ FlagIdle /\ ConsumerInit

ConsumerNext == ConsumeCallback \/ ConsumeReturn

ConsumerSpec == ConsumerSpecInit /\ [][ConsumerNext]_vars

\* ------------------------------------------------------------------ claims
\* how many batches whose events are still to come list `kind`
Outstanding(kind) ==
    Cardinality({i \in 1..Len(inflight) : Has(inflight[i], kind)})

OperationTypes ==
    {send_initial_metadata, send_message, send_close_from_client,
     receive_initial_metadata, receive_message, receive_status_on_client}

\* C1. Finality: once state.code is not None its value never changes, under
\* every interleaving of event dispatch, the pump with its aborts, cancel()
\* and finalization: state.code takes at most one value.
Finality == Len(code_log) <= 1

Backpressure ==
    method \in RequestStreaming =>
        /\ Outstanding(send_message) <= 1
        /\ pump.pc \in {"iterate", "submit"} => Outstanding(send_message) = 0

\* C5's case: the pump's second SendMessage is in flight.
SecondSendInFlight ==
    /\ method \in RequestStreaming
    /\ pump.yielded = 2
    /\ pump.pc = "wait"
    /\ Outstanding(send_message) = 1

\* C6. Due-set conservation: every operation kind of an event that is still
\* to come was listed by exactly one accepted batch and is in state.due, and
\* no dispatch has failed to remove a kind from state.due.
DueSetConservation ==
    /\ spin.pc # "raised"
    /\ reader.pc # "raised"
    /\ \A kind \in OperationTypes :
          Outstanding(kind) = IF kind \in state.due THEN 1 ELSE 0

\* C6's case: every event of a stream-stream call has been dispatched after
\* the pump and next() made all their submissions.
AllDispatched ==
    /\ method = StreamStream
    /\ state.due = {}
    /\ pump.yielded = MaxRequests
    /\ pump.pc = "done"
    /\ Len(reader.outcomes) = MaxNext

\* C10. Client cancel mid-stream: on a response-streaming call, once cancel()
\* has returned True, the code is CANCELLED, cancelled is True and every
\* next() begun afterwards raises the rendezvous.
CancelMidStream ==
    (method \in ResponseStreaming /\ CancelReturnedTrue) =>
        /\ state.code = CANCELLED
        /\ state.cancelled
        /\ \A i \in 1..Len(reader.outcomes) :
              reader.outcomes[i].after_cancel => reader.outcomes[i].value = RaiseSelf

InSeq(x, seq) == \E i \in 1..Len(seq) : seq[i] = x

AddDoneCallbackWhenTerminal ==
    \A c \in Callbacks :
        /\ registrar[c] = "calling" => invocations[c] = <<>>
        /\ registrar[c] = "called" =>
              invocations[c] = <<[thread |-> "caller", holds_condition |-> FALSE]>>
        /\ registrar[c] \in {"calling", "called"} =>
              /\ ~InSeq(FnName(c), state.callbacks)
              /\ ~InSeq(FnName(c), spin.callbacks)

\* C4's case: add_done_callback has called fn on a call that cancel() made
\* terminal, and the receive-status completion was dispatched as well.
CalledOnTerminalCall ==
    /\ state.cancelled
    /\ state.callbacks = NoCallbacks
    /\ spin.pc = "idle"
    /\ \E c \in Callbacks : registrar[c] = "called"

\* C9. result(timeout) on the multi-threaded rendezvous: on a terminal call
\* it returns the stored response when the code is OK, raises the
\* future-cancelled error when cancelled is True, and raises the rendezvous
\* otherwise; on a call that is not terminal when the timeout runs out it
\* raises the future-timeout error; and it changes no state.
ResultDid ==
    \A i \in 1..Len(results) :
        LET found == results[i].found
            did == results[i].did
        IN /\ found.code = None =>
                 did = [raised |-> FutureTimeoutError, returned |-> None]
           /\ found.code = OK =>
                 did = [raised |-> None, returned |-> found.response]
           /\ (found.code \notin {None, OK} /\ found.cancelled) =>
                 did = [raised |-> FutureCancelledError, returned |-> None]
           /\ (found.code \notin {None, OK} /\ ~found.cancelled) =>
                 did = [raised |-> RaiseSelf, returned |-> None]

ResultContract ==
    /\ []ResultDid
    /\ [][results' # results =>
            (state' = state /\ inflight' = inflight /\ registrar' = registrar)]_vars

\* C9's case: result() was invoked on a call that cancel() had terminated.
ResultOfCancelledCall ==
    /\ results # <<>>
    /\ results[1].found.cancelled
    /\ results[1].did.raised = FutureCancelledError

Running == Cardinality({w \in 1..Len(spinners) : spinners[w] \notin {"returned", "raised"}})

RECURSIVE IsSubsequence(_, _)
IsSubsequence(a, b) ==
    IF a = <<>> THEN TRUE
    ELSE IF b = <<>> THEN FALSE
    ELSE IF Head(a) = Head(b) THEN IsSubsequence(Tail(a), Tail(b))
    ELSE IsSubsequence(a, Tail(b))

\* C7. Subscriber ordering: the levels passed to each subscriber's callback
\* are, in order, a subsequence of the levels the polling thread stored in
\* state.connectivity.
SubscriberOrdering ==
    \A callback \in SubscriberCallbacks :
        IsSubsequence(observed[callback], level_log)

\* C11. Serialize failure on a unary request: when the request serializer
\* gives None, every entry point that takes one request (unary-unary
\* __call__, with_call and future, unary-stream in both variants) raises an
\* _InactiveRpcError with code INTERNAL and details "Exception serializing
\* request!", no transport operation is performed, and managed_calls is as it
\* was.
SerializeFailure ==
    (/\ entry.pc \notin {"none", "start"}
     /\ entry.point \in UnaryRequest
     /\ serialize(entry.request) = None)
    => /\ entry.pc = "raised"
       /\ entry.error = [code |-> INTERNAL,
                         details |-> "Exception serializing request!"]
       /\ entry.transport = <<>>
       /\ call_state.managed_calls = 0
       /\ \A c \in ManagedCalls : ~calls[c].created
       /\ spinners = <<>>

\* C11's case: the future of a unary-unary multicallable was asked for with a
\* request its serializer refuses, and the entry point has raised.
UnserializableRequestRaised ==
    /\ entry.pc = "raised"
    /\ entry.point = UnaryUnaryFuture
    /\ entry.request = Unserializable

\* C17. Deadline arithmetic: whatever the cardinality and the entry point,
\* the deadline handed to the transport when the call is created is the
\* smaller of the parent's and the user's deadline when both are present, the
\* one present when only one is, and none when both are absent.
DeadlineArithmetic ==
    \A i \in 1..Len(entry.transport) :
        entry.transport[i].deadline =
            IF entry.parent_deadline = NoDeadline THEN entry.deadline
            ELSE IF entry.deadline = NoDeadline THEN entry.parent_deadline
            ELSE IF entry.parent_deadline[1] <= entry.deadline[1]
                 THEN entry.parent_deadline
                 ELSE entry.deadline

\* the values the next() calls returned or raised so far, in order
Values == [k \in 1..Len(reader.outcomes) |-> reader.outcomes[k].value]

IsMessage(value) == value \notin {StopIteration, RaiseSelf, ReturnNone}

\* the messages the transport completed for the call, in order
Completed == [k \in 1..sent |-> Message(k)]

\* C12. No received message is lost at termination: on a response-streaming
\* call read by one consumer, when a next() raises StopIteration every message
\* that was stored in state.response has been returned by an earlier next(),
\* and none is left in state.response.
NoMessageLost ==
    \A i \in 1..Len(reader.outcomes) :
        reader.outcomes[i].value = StopIteration =>
            /\ SelectSeq(SubSeq(Values, 1, i - 1), IsMessage) = Completed
            /\ state.response = None

\* C12's case: one message was stored and the status was OK; the first
\* next() returned the message and the second ended the iteration.
MessageReturnedBeforeEnd ==
    /\ Len(reader.outcomes) = 2
    /\ reader.outcomes[1].value = Message(1)
    /\ reader.outcomes[2].value = StopIteration
    /\ sent = 1
    /\ state.response = None
    /\ code_log = <<OK>>

\* C13. Per-call message order: on a response-streaming call read by one
\* consumer, the values the next() calls returned are the messages the
\* transport completed, in the same order and each once; the last completed
\* message may still be in state.response for the next() that waits for it.
MessageOrder ==
    SelectSeq(Values, IsMessage)
        \o (IF state.response # None THEN <<state.response>> ELSE <<>>)
    = Completed

\* C13's case: two messages were completed and two next() calls returned
\* them, the first one first.
TwoMessagesReturned ==
    /\ sent = 2
    /\ Len(reader.outcomes) = 2
    /\ reader.outcomes[1].value = Message(1)
    /\ reader.outcomes[2].value = Message(2)

\* the _InactiveRpcError of a response that did not deserialize
DeserializingError ==
    [code |-> INTERNAL, details |-> "Exception deserializing response!"]

\* C14. Deserialization failure: when a receive-message completion carries
\* bytes the response deserializer cannot decode and the call is not terminal,
\* state.code becomes INTERNAL with details "Exception deserializing
\* response!" and state.response stays None; a receive-status completion in the
\* same event or in a later one, whatever its status, leaves that code; and
\* _end_unary_response_blocking raises it instead of returning.
DeserializationFailure ==
    \A event \in CompletionEvents :
        LET handled == _handle_event(event, state).state IN
        /\ (event.message = Garbage /\ state.code = None) =>
              /\ _InactiveRpcError(handled) = DeserializingError
              /\ handled.response = None
              /\ \A with_call \in BOOLEAN :
                    _end_unary_response_blocking(handled, with_call) =
                        [returned |-> None, with_rendezvous |-> FALSE,
                         raised |-> DeserializingError]
        /\ _InactiveRpcError(state) = DeserializingError =>
              /\ _InactiveRpcError(handled) = DeserializingError
              /\ \A with_call \in BOOLEAN :
                    _end_unary_response_blocking(handled, with_call).raised =
                        DeserializingError

\* C14's case: on a unary-stream call the message a next() waited for did not
\* deserialize, and the receive-status completion was dispatched after it.
StatusAfterDeserializationFailure ==
    /\ method = UnaryStream
    /\ _InactiveRpcError(state) = DeserializingError
    /\ state.response = None
    /\ state.trailing_metadata = "trailing metadata"
    /\ state.due = {}
    /\ code_log = <<INTERNAL>>

\* the code and details the pump aborts with when the request iterator raised
IteratingError ==
    [code |-> UNKNOWN, details |-> "Exception iterating requests!"]

UnknownStatusCode ==
    \A event \in CompletionEvents :
        LET handled == _handle_event(event, state) IN
        (/\ Has(event.batch_operations, receive_status_on_client)
         /\ state.code = None
         /\ event.message # Garbage
         /\ ~handled.raised
         /\ CYGRPC_STATUS_CODE_TO_STATUS_CODE(event.code) = None)
        => /\ handled.state.code = UNKNOWN
           /\ handled.state.details =
                 "Server sent unknown code " \o ToString(event.code)
                     \o " and details \"" \o event.details \o "\""

\* C18. Wait-for-ready encoding: with_wait_for_ready(None) gives the flags
\* unchanged; with_wait_for_ready(True) gives flags with wait_for_ready and
\* wait_for_ready_explicitly_set both set; with_wait_for_ready(False) gives
\* flags with wait_for_ready clear and wait_for_ready_explicitly_set set; no
\* other bit changes; and applying the same setter again changes nothing.
WaitForReadyEncoding ==
    flagged.applied # <<>> =>
        LET w == flagged.applied[Len(flagged.applied)] IN
        /\ w = None => flagged.flags = flagged.before
        /\ w = "True" =>
              /\ wait_for_ready \in flagged.flags
              /\ wait_for_ready_explicitly_set \in flagged.flags
        /\ w = "False" =>
              /\ wait_for_ready \notin flagged.flags
              /\ wait_for_ready_explicitly_set \in flagged.flags
        /\ flagged.flags \ {wait_for_ready, wait_for_ready_explicitly_set}
             = flagged.before \ {wait_for_ready, wait_for_ready_explicitly_set}
        /\ with_wait_for_ready(flagged.flags, w) = flagged.flags

\* C18's case: flags with another bit set had wait_for_ready set explicitly
\* and then cleared explicitly.
SetThenCleared ==
    /\ flagged.applied = <<"True", "False">>
    /\ flagged.before =
          {"corked", wait_for_ready, wait_for_ready_explicitly_set}
    /\ flagged.flags = {"corked", wait_for_ready_explicitly_set}

\* what the single-threaded result(), exception() and traceback() did, held
\* against what they found
SingleThreadedFutureDid ==
    \A i \in 1..Len(results) :
        LET found == results[i].found
            did == results[i].did
            surface == results[i].surface
        IN /\ found.code = None =>
                 did = [raised |-> UsageError, returned |-> None]
           /\ found.code = OK =>
                 did = [raised |-> None,
                        returned |-> IF surface = "result"
                                     THEN found.response ELSE None]
           /\ (found.code \notin {None, OK} /\ found.cancelled) =>
                 did = [raised |-> FutureCancelledError, returned |-> None]
           /\ (found.code \notin {None, OK} /\ ~found.cancelled) =>
                 did = CASE surface = "result" ->
                              [raised |-> RaiseSelf, returned |-> None]
                         [] surface = "exception" ->
                              [raised |-> None, returned |-> "self"]
                         [] surface = "traceback" ->
                              [raised |-> None, returned |-> "sys.exc_info()[2]"]
           /\ found.code # None =>
                 did = CASE surface = "result" -> result(found, FALSE)
                         [] surface = "exception" -> exception(found, FALSE)
                         [] surface = "traceback" -> traceback(found, FALSE)

\* C19. The future surface of the single-threaded rendezvous never blocks:
\* result(), exception() and traceback() called while state.code is None
\* raise the usage error, take no event of the call and change no state;
\* called on a terminal call they do what the multi-threaded methods do: the
\* response (None for exception and traceback) when the code is OK, the
\* future-cancelled error when cancelled is True, and the rendezvous (raised,
\* returned, or its traceback) otherwise.
SingleThreadedFutureNeverBlocks ==
    /\ []SingleThreadedFutureDid
    /\ [][results' # results =>
            (/\ state' = state /\ inflight' = inflight /\ sent' = sent
             /\ reader' = reader /\ invocations' = invocations)]_vars

\* C19's case: result() was invoked on a single-threaded rendezvous whose call
\* was not terminal and had a completion event waiting, and raised the usage
\* error with the event still waiting.
UsageErrorWithEventWaiting ==
    /\ results # <<>>
    /\ results[1].surface = "result"
    /\ results[1].found.code = None
    /\ results[1].did.raised = UsageError
    /\ state.code = None
    /\ inflight # <<>>

\* C20. cancel() on a call that is terminal already returns False and does
\* nothing: code, details, cancelled, due, callbacks and the metadata stay as
\* they are and call.cancel is not called; so a call that no cancel() found
\* open has cancelled False however often cancel() is invoked on it.
CancelOnTerminalCall ==
    /\ [](\A i \in 1..Len(cancels) : cancels[i].terminal => ~cancels[i].returned)
    /\ [][(cancels' # cancels /\ state.code # None) =>
            (/\ state' = state
             /\ code_log' = code_log
             /\ transport_cancels' = transport_cancels
             /\ inflight' = inflight)]_vars
    /\ []((~finalized /\ \A i \in 1..Len(cancels) : cancels[i].terminal) =>
            ~state.cancelled)

\* C20's case: the receive-status completion ended the call with OK, and
\* cancel() was invoked on it MaxCancels times.
CancelledAfterStatus ==
    /\ Len(cancels) = MaxCancels
    /\ \A i \in 1..Len(cancels) : cancels[i].terminal /\ ~cancels[i].returned
    /\ code_log = <<OK>>
    /\ ~state.cancelled
    /\ transport_cancels.cancel = 0

\* C24. At most one delivery worker: at any time at most one thread runs
\* _deliver for the channel, and state.delivering is True exactly while one
\* does.
SingleDeliveryWorker ==
    /\ Len(deliverers) <= 1
    /\ connectivity_state.delivering <=> (Len(deliverers) > 0)

\* C25. At most one polling worker: state.polling is True exactly while a
\* thread runs _poll_connectivity; _subscribe starts one only when nobody is
\* subscribed and polling is False, so never while one is running; and
\* polling goes back to False only in the step in which the polling thread
\* ends.
SinglePollingWorker ==
    /\ [](connectivity_state.polling <=> (poller.pc # "none"))
    /\ [][(poller.pc # "initial" /\ poller'.pc = "initial") =>
            (/\ poller.pc = "none"
             /\ connectivity_state.callbacks_and_connectivities = <<>>
             /\ ~connectivity_state.polling)]_vars
    /\ [][(connectivity_state.polling /\ ~connectivity_state'.polling) =>
            (poller.pc = "watch" /\ poller'.pc = "none")]_vars

\* C25's case: the polling thread ended when it found nobody subscribed, and
\* a later _subscribe started a second one, which is in its loop.
SecondPollingWorker ==
    /\ subscriptions = 2
    /\ connectivity_state.polling
    /\ poller.pc = "watch"
    /\ Len(connectivity_state.callbacks_and_connectivities) = 1
    /\ connectivity_state.callbacks_and_connectivities[1][1] = SubscriberCallback(2)

\* every subscriber has been called last with the channel's level, and no
\* delivery is under way
Settled ==
    /\ ~connectivity_state.delivering
    /\ \A callback \in SubscriberCallbacks :
          Subscribed(connectivity_state, callback) =>
              /\ observed[callback] # <<>>
              /\ observed[callback][Len(observed[callback])] =
                    connectivity_state.connectivity

\* C21. Subscribers converge to the final level: once the subscribers and the
\* channel's level have stopped changing, eventually and from then on every
\* subscriber that is still subscribed has been called last with the
\* channel's level, and state.delivering is False.
SubscribersConverge ==
    <>[](connectivity_state.connectivity # None => Settled)

\* C22. No duplicate deliveries: no two consecutive invocations of a
\* subscriber's callback carry the same connectivity level.
NoDuplicateDeliveries ==
    \A callback \in SubscriberCallbacks :
        \A i \in 1..(Len(observed[callback]) - 1) :
            observed[callback][i] # observed[callback][i + 1]

\* C23. state.cancelled is True exactly when a local cancellation found the
\* call not terminal (a cancel() that returned True, or the finalizer that
\* cancelled the call); a call marked cancelled has the code CANCELLED, so a
\* call the transport ended with CANCELLED on its own is not marked.
CancelledFlag ==
    /\ state.cancelled <=>
          (CancelReturnedTrue \/ transport_cancels.finalizer > 0)
    /\ state.cancelled => state.code = CANCELLED

\* the steps in which the transport refuses the pump's SendMessage, the pump's
\* SendCloseFromClient, and the ReceiveMessage of a next()
RefusedSendMessage == pump.pc = "submit" /\ pump'.pc = "refused"
RefusedSendClose == pump.pc = "close" /\ pump'.pc = "refused"
RefusedReceiveMessage ==
    reader.pc = "idle" /\ reader'.pc # "idle" /\ inflight' = inflight

\* C26. Transport refusal rolls due back: a step in which operate() refuses a
\* SendMessage, SendCloseFromClient or ReceiveMessage leaves the whole call
\* state, state.due included, as it was before the kind was added; no event
\* is owed for the operation, and the kind is not in state.due afterwards, so
\* that neither the pump, which returns, nor the wait of next() depends on a
\* completion of it.
TransportRefusal ==
    [][/\ RefusedSendMessage =>
             (state' = state /\ inflight' = inflight
                /\ send_message \notin state'.due)
       /\ RefusedSendClose =>
             (state' = state /\ inflight' = inflight
                /\ send_close_from_client \notin state'.due)
       /\ RefusedReceiveMessage =>
             (state' = state /\ receive_message \notin state'.due)]_vars

\* C26's case: the transport refused the pump's second SendMessage on a call
\* that is not terminal.
SecondSendRefused ==
    /\ pump.pc = "refused"
    /\ pump.yielded = 2
    /\ pump.serialized_request # None
    /\ state.code = None

\* the pump calls operate(): for a SendMessage, or for SendCloseFromClient
PumpOperates ==
    \/ pump.pc = "submit" /\ pump'.pc \in {"wait", "refused"}
    \/ /\ pump.pc = "close"
       /\ pump'.pc = "refused" \/ (pump'.pc = "done" /\ state'.due # state.due)

\* C27. Cancellation stops the pump: once a cancel() has returned True the
\* pump submits no SendMessage and no SendCloseFromClient, and a pump that is
\* waiting for the completion of its SendMessage eventually returns.
CancellationStopsPump ==
    /\ [][CancelReturnedTrue => ~PumpOperates]_vars
    /\ (CancelReturnedTrue /\ pump.pc = "wait") ~> (pump.pc = "done")

\* C27's case: the pump has returned from its wait after a cancel() that
\* returned True, while its SendMessage is still to complete.
PumpLeftWaitOnCancel ==
    /\ CancelReturnedTrue
    /\ pump.pc = "done"
    /\ pump.yielded > 0
    /\ send_message \in state.due

\* the step in which the pump finds that a request did not serialize, on a
\* call that is neither terminal nor cancelled
PumpSerializationFails ==
    /\ pump.pc = "submit" /\ pump'.pc # "submit"
    /\ pump.serialized_request = None
    /\ state.code = None /\ ~state.cancelled

\* C28. Pump serialization failure: when a request of the iterator does not
\* serialize and the call is neither terminal nor cancelled, the pump cancels
\* the call at the transport, the code becomes INTERNAL with the details
\* "Exception serializing request!", nothing is added to state.due or
\* submitted for the request, and the pump returns: it takes no further step,
\* SendCloseFromClient included.
PumpSerializationFailure ==
    /\ [][PumpSerializationFails =>
            /\ transport_cancels'.pump = transport_cancels.pump + 1
            /\ state'.code = INTERNAL
            /\ state'.details = "Exception serializing request!"
            /\ state'.due = state.due
            /\ inflight' = inflight
            /\ pump'.pc = "done"]_vars
    /\ [][pump.pc = "done" => pump' = pump]_vars

\* C28's case: the second request of the iterator did not serialize, after
\* the first one was sent.
SecondRequestUnserializable ==
    /\ pump.pc = "done"
    /\ pump.yielded = 2
    /\ pump.serialized_request = None
    /\ state.code = INTERNAL
    /\ state.details = "Exception serializing request!"
    /\ transport_cancels.pump = 1

\* the step in which the pump calls operate() for SendCloseFromClient
PumpSubmitsClose ==
    /\ pump.pc = "close"
    /\ \/ pump'.pc = "refused"
       \/ pump'.pc = "done" /\ send_close_from_client \in state'.due

\* C29. Half-close ordering: the pump submits SendCloseFromClient only when
\* the iterator is exhausted, no SendMessage of the pump is listed as due or
\* awaits its dispatch, and state.code is None; having done so the pump has
\* returned, so that it submits SendCloseFromClient at most once and no
\* SendMessage after it.
HalfCloseOrdering ==
    /\ [][PumpSubmitsClose =>
            /\ state.code = None
            /\ send_message \notin state.due
            /\ Outstanding(send_message) = 0
            /\ pump'.pc \in {"done", "refused"}]_vars
    /\ [][pump.pc \in {"done", "refused"} =>
            /\ pump' = pump
            /\ Outstanding(send_message) >= Outstanding(send_message)'
            /\ Outstanding(send_close_from_client) >=
                  Outstanding(send_close_from_client)']_vars

\* C29's case: SendCloseFromClient was accepted after both requests of the
\* iterator had been sent and dispatched.
ClosedAfterTwoRequests ==
    /\ pump.pc = "done"
    /\ pump.yielded = 2
    /\ state.code = None
    /\ send_close_from_client \in state.due
    /\ Outstanding(send_close_from_client) = 1

\* C30. Callback exceptions do not kill the spin worker: no exception leaves
\* handle_event, whoever registered the callback that raised; the channel
\* spin thread keeps running; and when the handler returns, every drained
\* callback has been invoked, in order, and the handler returns whether the
\* call is complete.
CallbackExceptionsSwallowed ==
    /\ handling.pc # "raised"
    /\ handling.channel_spin = "running"
    /\ handling.pc = "returned" =>
          /\ handling.invoked = [i \in 1..Len(handling.callbacks) |-> i]
          /\ handling.returned =
                (IF handling.done /\ handling.fork_epoch_current
                 THEN "True" ELSE "False")

\* C31. Single-threaded rendezvous callbacks: once _consume_next_event has
\* applied the receive-status completion and has ended, by returning or by
\* raising, every callback it drained has been invoked exactly once; and it
\* ends by raising exactly when a callback it invoked raised.
SingleThreadedCallbacks ==
    /\ handling.pc \in {"returned", "raised"} =>
          handling.invoked = [i \in 1..Len(handling.callbacks) |-> i]
    /\ handling.pc = "raised" <=>
          \E i \in 1..Len(handling.invoked) :
              handling.callbacks[handling.invoked[i]].raises

\* C32. Accessors return once the call is terminal: on a multi-threaded
\* rendezvous that is still referenced, once state.code is set and the
\* completions are dispatched as they come, the wait of each of
\* initial_metadata(), trailing_metadata(), code(), details() and
\* debug_error_string() eventually ends.
AccessorsReturn ==
    \A accessor \in Accessors :
        (method \in MultiThreaded /\ state.code # None)
            ~> (finalized \/ AccessorDone(accessor, state))

\* C33. Polling worker exit: the polling thread ends, setting state.polling
\* False and state.connectivity None, only in a step that finds nobody
\* subscribed and state.try_to_connect False; and when from some point on
\* nobody is subscribed (after _unsubscribe_all or the last unsubscribe, with
\* no later subscribe), the polling thread eventually ends and stays ended.
PollingWorkerExit ==
    /\ [][(poller.pc # "none" /\ poller'.pc = "none") =>
            /\ connectivity_state.callbacks_and_connectivities = <<>>
            /\ ~connectivity_state.try_to_connect
            /\ ~connectivity_state'.polling
            /\ connectivity_state'.connectivity = None]_vars
    /\ <>[](connectivity_state.callbacks_and_connectivities = <<>>)
          => <>[](poller.pc = "none" /\ ~connectivity_state.polling)

\* C33's case: the second polling thread has ended after its subscriber was
\* unsubscribed.
SecondPollerExited ==
    /\ subscriptions = 2
    /\ Len(level_log) >= 2
    /\ poller.pc = "none"
    /\ ~connectivity_state.polling
    /\ connectivity_state.connectivity = None
    /\ connectivity_state.callbacks_and_connectivities = <<>>

\* the managed calls created, those whose due set an event has emptied, and
\* the completed indicators the spin threads hold and have not counted yet
CallsCreated == Cardinality({c \in ManagedCalls : calls[c].created})
CallsEmptied ==
    Cardinality({c \in ManagedCalls : calls[c].created /\ calls[c].state.due = {}})
Unacknowledged ==
    Cardinality({w \in 1..Len(spinners) : spinners[w] = "call_completed"})

\* C34. Managed-call accounting: a spin thread gets the completed indicator
\* only from the event that empties the call's due set, after which the call
\* gets no operation and no event; state.managed_calls is never negative and
\* is the number of calls created less the number whose due set was emptied
\* and whose indicator the spin thread has counted.
ManagedCallAccounting ==
    /\ [](call_state.managed_calls >= 0)
    /\ [](call_state.managed_calls =
             CallsCreated - (CallsEmptied - Unacknowledged))
    /\ [][\A c \in ManagedCalls :
            (calls[c].created /\ calls[c].state.due = {}) =>
                calls'[c] = calls[c]]_vars
    /\ [][Unacknowledged' > Unacknowledged =>
            (Unacknowledged' = Unacknowledged + 1
               /\ CallsEmptied' = CallsEmptied + 1)]_vars

\* C34's case: of two managed calls the first is complete and counted, the
\* second still has operations due.
OneOfTwoCallsCounted ==
    /\ call_state.lock = "free"
    /\ call_state.managed_calls = 1
    /\ calls[1].created /\ calls[1].state.due = {}
    /\ calls[2].created /\ calls[2].state.due # {}
    /\ Unacknowledged = 0

\* C35. The single-threaded unary-stream call uses no workers: from its
\* entry point on, state.managed_calls stays 0, no channel spin thread is
\* started, no thread other than the caller's handles an event of the call,
\* and every completion event of the call is taken in a step of next() or of
\* initial_metadata().
SingleThreadedUsesNoWorkers ==
    /\ [](entry.point = SingleThreadedUnaryStream =>
            /\ call_state.managed_calls = 0
            /\ spinners = <<>>
            /\ ~calls[1].created
            /\ spin = Idle
            /\ pump.pc = "none")
    /\ [][(entry.point = SingleThreadedUnaryStream
              /\ Len(inflight') < Len(inflight)) =>
            (/\ reader.pc \in {"consume", "idle", "metadata"}
             /\ reader.pc = "idle" => state.initial_metadata = None
             /\ spin' = Idle
             /\ spinners' = <<>>)]_vars

\* C35's case: the call has ended with every event dispatched, some by
\* initial_metadata() and some by next().
SingleThreadedCallRun ==
    /\ entry.point = SingleThreadedUnaryStream
    /\ entry.pc = "returned"
    /\ inflight = <<>>
    /\ state.due = {}
    /\ state.code = OK
    /\ Len(reader.outcomes) = 2
    /\ reader.pc = "idle"

\* C36. Metadata stability: initial_metadata() and trailing_metadata() of the
\* multi-threaded rendezvous return state.initial_metadata and
\* state.trailing_metadata as soon as they are not None; once either field
\* holds a value that an invocation can return, no step changes it, a call
\* terminated by cancel() or _abort before the dispatch of its
\* receive-initial-metadata or receive-status included.
MetadataStability ==
    [][(method \in MultiThreaded) =>
        ((state.initial_metadata # None =>
             state'.initial_metadata = state.initial_metadata)
         /\ (state.trailing_metadata # None =>
                state'.trailing_metadata = state.trailing_metadata))]_vars

\* C37. Unsubscribe is effective: every callback is subscribed at most once,
\* so a callback that has been delivered to, or is about to be, and is not in
\* state.callbacks_and_connectivities has been removed by _unsubscribe; no
\* delivery thread invokes a callback that is not in the list, whatever the
\* thread was doing when _unsubscribe ran.
UnsubscribeEffective ==
    [][\A d \in 1..Len(deliverers) :
          (deliverers[d].callbacks # <<>> /\ Len(deliverers') = Len(deliverers)
             /\ deliverers'[d].callbacks = Tail(deliverers[d].callbacks)
             /\ observed' # observed) =>
          Subscribed(connectivity_state, Head(deliverers[d].callbacks))]_vars

\* The places of the multi-threaded code that assign a field of the
\* _RPCState: whether the thread holds state.condition there, and whether it
\* calls state.condition.notify_all() before it releases the condition.
Mutations ==
    [handle_event |-> [condition |-> TRUE, notify_all |-> TRUE],
     cancel |-> [condition |-> TRUE, notify_all |-> TRUE],
     dunder_del |-> [condition |-> TRUE, notify_all |-> TRUE],
     pump_abort_iterating |-> [condition |-> FALSE, notify_all |-> FALSE],
     pump_abort_serializing |-> [condition |-> TRUE, notify_all |-> FALSE],
     pump_operate |-> [condition |-> TRUE, notify_all |-> FALSE],
     rendezvous_next |-> [condition |-> TRUE, notify_all |-> FALSE]]

\* the place of the code that a step of the call runs
MutationSite ==
    IF pump' # pump
    THEN CASE pump.pc = "abort_write" -> "pump_abort_iterating"
           [] pump.pc = "submit" /\ pump.serialized_request = None ->
                "pump_abort_serializing"
           [] OTHER -> "pump_operate"
    ELSE IF Len(inflight') < Len(inflight) THEN "handle_event"
    ELSE IF finalized' # finalized THEN "dunder_del"
    ELSE IF cancels' # cancels THEN "cancel"
    ELSE "rendezvous_next"

\* C38. Every step that terminates a multi-threaded call, that is, assigns
\* state.code and with it details, the metadata or cancelled, is taken by a
\* thread that holds state.condition and calls notify_all before it releases
\* the condition, the pump's aborts after an exception of the request
\* iterator and after a failed serialization included.
MutationsGuardedAndNotified ==
    [][(method \in MultiThreaded /\ state'.code # state.code) =>
          (Mutations[MutationSite].condition
           /\ Mutations[MutationSite].notify_all)]_vars

\* C39. A call without a code still expects its status: in every state,
\* state.code = None implies that receive_status_on_client is in state.due,
\* so an empty due set implies a code; the loop of the blocking stream-unary
\* entry point returns only when the call has a code; and once state.due is
\* empty no step adds an operation to it.
StatusDueUntilTerminal ==
    /\ [](state.code = None => receive_status_on_client \in state.due)
    /\ [](entry.pc = "returned" => state.code # None)
    /\ [][state.due = {} => state'.due = {}]_vars

\* C39's case: the blocking loop has returned after the pump sent two
\* requests and the half-close, with every operation of the call completed.
BlockingLoopReturned ==
    /\ entry.point = StreamUnaryCall
    /\ entry.pc = "returned"
    /\ state.due = {}
    /\ state.code = OK
    /\ pump.pc = "done"
    /\ pump.yielded = MaxRequests
    /\ inflight = <<>>
====
